---- MODULE Spec2Model ----
(***************************************************************************)
(* A model of the timing / results engine of glh-timer (src/app/main.py,   *)
(* src/app/utils.py, src/app/models.py).                                   *)
(*                                                                         *)
(* Text is a sequence of one-character strings ("12,B" is                  *)
(* <<"1","2",",","B">>), an instant is an integer number of clock ticks    *)
(* (TicksPerSecond ticks make one second).  A nullable column or an       *)
(* optional value is None (NULL / Python's None) or Some(v).               *)
(***************************************************************************)
EXTENDS Integers, Sequences, FiniteSets, TLC

VARIABLES
    races,          \* table races: set of race_id
    race_parts,     \* table race_parts: set of rows
    participants,   \* table participants: set of rows
    events,         \* table timing_events: sequence of rows in insertion order
    next_id,        \* next autoincrement id of timing_events
    resp,           \* the last completed request and its response
    reqs,           \* in-flight submit_end_targets requests (per worker)
    out,            \* value returned by the last read-only computation
    claimed,        \* history: how often each event id was claimed (at most 2)
    race_part_start_times   \* table of src/backend/app: set of start-time rows

vars == <<races, race_parts, participants, events, next_id, resp, reqs, out, claimed, race_part_start_times>>

None == <<>>
Some(v) == <<v>>
Val(o) == o[1]

\* --------------------------------------------------------------------------
\* Bounds of the model
\* --------------------------------------------------------------------------
\* most timing events the store is allowed to hold in the request model
MaxEvents == 1
\* most timing events drawn into the store of the duration model
MaxDurationEvents == 3
\* most timing events drawn into the store of the gathering model
MaxGatherEvents == 2
\* most timing events drawn into the store of the results model
MaxResultEvents == 2
\* most timing events drawn into the store of the claim model
MaxClaimEvents == 2
\* most timing events drawn into the store of the concurrent-claim model
MaxRaceEvents == 1
\* most timing events drawn into the store of the submission model
MaxSubmitEvents == 1
\* most rows of an uploaded CSV file in the preview model
MaxPreviewRows == 2
\* most rows of an uploaded timing-events CSV file in the round-trip model
MaxCsvRows == 2
\* timing events stored when one CSV apply arrives (SpecCsvApply)
MaxApplyEvents == 2
\* timing events stored when a wave schedule is asked for (SpecWave)
MaxWaveEvents == 2
\* timing events stored when a table is exported (SpecRoundTrip)
MaxRoundEvents == 2
\* most upsert_start_time calls of one behaviour (SpecStartTimes)
MaxUpserts == 3
\* timing events stored when an end time without targets arrives (SpecPending)
MaxPendingEvents == 2
\* timing events stored when one more is added (SpecAdd)
MaxAddEvents == 3
\* clock resolution: ticks per second (datetime carries sub-second precision)
TicksPerSecond == 2

\* --------------------------------------------------------------------------
\* Python text primitives
\* --------------------------------------------------------------------------
Digits == {"0", "1", "2", "3", "4", "5", "6", "7", "8", "9"}
Letters == {"A", "B", "K", "O", "N", "W"}
Whitespace == {" "}

\* str.isdigit(): non-empty and only digits
IsDigit(s) == Len(s) > 0 /\ \A i \in 1..Len(s) : s[i] \in Digits

\* str.isalpha() of one character
IsAlpha(c) == c \in Letters

DigitVal(c) ==
    CASE c = "0" -> 0 [] c = "1" -> 1 [] c = "2" -> 2 [] c = "3" -> 3
      [] c = "4" -> 4 [] c = "5" -> 5 [] c = "6" -> 6 [] c = "7" -> 7
      [] c = "8" -> 8 [] c = "9" -> 9

RECURSIVE DigitsToInt(_)
DigitsToInt(s) ==
    IF Len(s) = 0 THEN 0
    ELSE 10 * DigitsToInt(SubSeq(s, 1, Len(s) - 1)) + DigitVal(s[Len(s)])

RECURSIVE LStrip(_)
LStrip(s) == IF Len(s) > 0 /\ s[1] \in Whitespace THEN LStrip(Tail(s)) ELSE s

RECURSIVE RStrip(_)
RStrip(s) ==
    IF Len(s) > 0 /\ s[Len(s)] \in Whitespace
    THEN RStrip(SubSeq(s, 1, Len(s) - 1)) ELSE s

\* str.strip()
Strip(s) == RStrip(LStrip(s))

\* int(text): Some(n); surrounding blanks and one sign are accepted, anything
\* else is a ValueError, written None here
ToInt(text) ==
    LET s == Strip(text)
        neg == Len(s) > 0 /\ s[1] = "-"
        pos == Len(s) > 0 /\ s[1] = "+"
        body == IF neg \/ pos THEN Tail(s) ELSE s
    IN IF ~IsDigit(body) THEN None
       ELSE IF neg THEN Some(0 - DigitsToInt(body)) ELSE Some(DigitsToInt(body))

\* str.split(sep): always at least one part
RECURSIVE Split(_, _)
Split(s, sep) ==
    IF \A i \in 1..Len(s) : s[i] # sep THEN <<s>>
    ELSE LET k == CHOOSE i \in 1..Len(s) :
                      s[i] = sep /\ \A j \in 1..(i - 1) : s[j] # sep
         IN <<SubSeq(s, 1, k - 1)>> \o Split(SubSeq(s, k + 1, Len(s)), sep)

RECURSIVE StripNonEmpty(_)
StripNonEmpty(parts) ==
    IF Len(parts) = 0 THEN <<>>
    ELSE (IF Len(Strip(Head(parts))) > 0 THEN <<Strip(Head(parts))>> ELSE <<>>)
         \o StripNonEmpty(Tail(parts))

parse_comma_list(value) == StripNonEmpty(Split(value, ","))

\* a pair <<participant_id, group>>, one of them None
parse_target_token(token) ==
    IF IsDigit(token) THEN <<Some(DigitsToInt(token)), None>>
    ELSE <<None, Some(token)>>

\* parse_duration_to_seconds: Some(seconds), or None for the ValueError
parse_duration_to_seconds(value) ==
    LET parts == Split(Strip(value), ":")
        n == Len(parts)
        ints == [i \in 1..n |-> ToInt(parts[i])]
    IN IF n \notin {2, 3} THEN None
       ELSE IF \E i \in 1..n : ints[i] = None THEN None
       ELSE IF n = 2 THEN Some(Val(ints[1]) * 60 + Val(ints[2]))
       ELSE Some(Val(ints[1]) * 3600 + Val(ints[2]) * 60 + Val(ints[3]))

\* --------------------------------------------------------------------------
\* Duration Resolver (src/app/utils.py, src/app/main.py)
\* --------------------------------------------------------------------------
RECURSIVE SeqMin(_)
\* min(candidates) of a non-empty list
SeqMin(seq) ==
    IF Len(seq) = 1 THEN seq[1]
    ELSE LET m == SeqMin(Tail(seq)) IN IF seq[1] <= m THEN seq[1] ELSE m

\* int((end - start).total_seconds()) for end >= start
ElapsedSeconds(start, end) == (end - start) \div TicksPerSecond

RECURSIVE MutEndLoopStrict(_, _)
\* EndLoop with "end > start" in the place of "end >= start"
MutEndLoopStrict(start, end_times) ==
    IF Len(end_times) = 0 THEN <<>>
    ELSE (IF Head(end_times) > start
          THEN <<ElapsedSeconds(start, Head(end_times))>> ELSE <<>>)
         \o MutEndLoopStrict(start, Tail(end_times))

RECURSIVE EndLoop(_, _)
\* the inner loop "for end in end_times" for one start
EndLoop(start, end_times) ==
    IF Len(end_times) = 0 THEN <<>>
    ELSE (IF Head(end_times) >= start
          THEN <<ElapsedSeconds(start, Head(end_times))>> ELSE <<>>)
         \o EndLoop(start, Tail(end_times))

RECURSIVE StartLoop(_, _)
\* the outer loop "for start in start_times"
StartLoop(start_times, end_times) ==
    IF Len(start_times) = 0 THEN <<>>
    ELSE EndLoop(Head(start_times), end_times)
         \o StartLoop(Tail(start_times), end_times)

\* the candidate read last instead of the least one
MutBestIsLastCandidate(duration_values, start_times, end_times) ==
    LET candidates == duration_values \o StartLoop(start_times, end_times)
    IN IF Len(candidates) = 0 THEN None ELSE Some(candidates[Len(candidates)])

\* Some(seconds) or None
compute_best_duration_seconds(duration_values, start_times, end_times) ==
    LET candidates == duration_values \o StartLoop(start_times, end_times)
    IN IF Len(candidates) = 0 THEN None ELSE Some(SeqMin(candidates))

\* EventMatches without the race_part_id condition
MutEventMatchesAnyStage(e, race_id, race_part_id, participant) ==
    /\ e.race_id = race_id
    /\ \/ e.participant_id = Some(participant.participant_id)
       \/ e.group = Some(participant.group)

\* the WHERE clause, had NULL been equal to every bib and every group
MutEventMatchesNull(e, race_id, race_part_id, participant) ==
    /\ e.race_id = race_id
    /\ e.race_part_id = race_part_id
    /\ \/ e.participant_id \in {None, Some(participant.participant_id)}
       \/ e.group \in {None, Some(participant.group)}

\* the WHERE clause of compute_participant_duration; a comparison with NULL
\* is never true in SQL
EventMatches(e, race_id, race_part_id, participant) ==
    /\ e.race_id = race_id
    /\ e.race_part_id = race_part_id
    /\ \/ e.participant_id = Some(participant.participant_id)
       \/ e.group = Some(participant.group)

HasDuration(e) == e.duration_seconds # None
HasStart(e) == e.start_time # None
HasEnd(e) == e.end_time # None

\* [event.duration_seconds for event in events if ... is not None]
DurationValues(gathered) ==
    LET kept == SelectSeq(gathered, HasDuration)
    IN [i \in 1..Len(kept) |-> Val(kept[i].duration_seconds)]

\* [event.start_time for event in events if event.start_time]
StartTimes(gathered) ==
    LET kept == SelectSeq(gathered, HasStart)
    IN [i \in 1..Len(kept) |-> Val(kept[i].start_time)]

\* [event.end_time for event in events if event.end_time]
EndTimes(gathered) ==
    LET kept == SelectSeq(gathered, HasEnd)
    IN [i \in 1..Len(kept) |-> Val(kept[i].end_time)]

\* the events selected for one participant in one stage of one race
GatheredEvents(evs, race_id, race_part_id, participant) ==
    LET Hit(e) == EventMatches(e, race_id, race_part_id, participant)
    IN SelectSeq(evs, Hit)

compute_participant_duration(evs, race_id, race_part_id, participant) ==
    LET gathered == GatheredEvents(evs, race_id, race_part_id, participant)
    IN compute_best_duration_seconds(
           DurationValues(gathered), StartTimes(gathered), EndTimes(gathered))

RECURSIVE MutOverallLoopPartial(_, _, _, _, _)
\* OverallLoop that skips a stage without a duration: a partial sum
MutOverallLoopPartial(evs, race_id, participant, parts, total) ==
    IF Len(parts) = 0 THEN Some(total)
    ELSE LET part == Head(parts)
             duration == compute_participant_duration(
                             evs, race_id, part.race_part_id, participant)
         IN IF part.is_overall \/ duration = None
            THEN MutOverallLoopPartial(evs, race_id, participant, Tail(parts), total)
            ELSE MutOverallLoopPartial(evs, race_id, participant, Tail(parts),
                                       total + Val(duration))

RECURSIVE OverallLoop(_, _, _, _, _)
\* the loop of compute_overall_duration with its running total
OverallLoop(evs, race_id, participant, parts, total) ==
    IF Len(parts) = 0 THEN Some(total)
    ELSE LET part == Head(parts)
             duration == compute_participant_duration(
                             evs, race_id, part.race_part_id, participant)
         IN IF part.is_overall
            THEN OverallLoop(evs, race_id, participant, Tail(parts), total)
            ELSE IF duration = None THEN None
            ELSE OverallLoop(evs, race_id, participant, Tail(parts),
                             total + Val(duration))

compute_overall_duration(evs, race_id, participant, parts) ==
    OverallLoop(evs, race_id, participant, parts, 0)

\* --------------------------------------------------------------------------
\* Results Aggregator (src/app/utils.py, src/app/main.py)
\* --------------------------------------------------------------------------
DigitChar(d) ==
    CASE d = 0 -> "0" [] d = 1 -> "1" [] d = 2 -> "2" [] d = 3 -> "3"
      [] d = 4 -> "4" [] d = 5 -> "5" [] d = 6 -> "6" [] d = 7 -> "7"
      [] d = 8 -> "8" [] d = 9 -> "9"

RECURSIVE NatToText(_)
\* str(n) for n >= 0
NatToText(n) ==
    IF n < 10 THEN <<DigitChar(n)>>
    ELSE Append(NatToText(n \div 10), DigitChar(n % 10))

\* f"{n:02d}": the sign counts for the width
Format02d(n) ==
    LET body == IF n < 0 THEN <<"-">> \o NatToText(0 - n) ELSE NatToText(n)
    IN IF Len(body) < 2 THEN <<"0">> \o body ELSE body

\* Python's // and % floor towards minus infinity, as \div and % do here
format_seconds(seconds) ==
    LET hours == seconds \div 3600
        minutes == (seconds % 3600) \div 60
        secs == seconds % 60
    IN IF hours > 0
       THEN Format02d(hours) \o <<":">> \o Format02d(minutes)
            \o <<":">> \o Format02d(secs)
       ELSE Format02d(minutes) \o <<":">> \o Format02d(secs)

DNF == <<"D", "N", "F">>

RECURSIVE OrderByParticipantId(_)
\* ORDER BY participant_id over a set of participant rows of one race
OrderByParticipantId(rows) ==
    IF rows = {} THEN <<>>
    ELSE LET first == CHOOSE p \in rows :
                          \A q \in rows : p.participant_id <= q.participant_id
         IN <<first>> \o OrderByParticipantId(rows \ {first})

RECURSIVE SortedByRaceOrder(_)
\* sorted(parts, key=race_order) over a set of stage rows
SortedByRaceOrder(parts) ==
    IF parts = {} THEN <<>>
    ELSE LET first == CHOOSE p \in parts :
                          \A q \in parts : p.race_order <= q.race_order
         IN <<first>> \o SortedByRaceOrder(parts \ {first})

NonOverallParts(parts, race_id) ==
    SortedByRaceOrder({p \in parts : p.race_id = race_id /\ ~p.is_overall})

\* SortKey without its first component: a missing duration sorts as 0
MutSortKeyNoneAsZero(row) ==
    <<FALSE,
      IF row.duration_seconds = None THEN 0 ELSE Val(row.duration_seconds)>>

\* the sort key (duration_seconds is None, duration_seconds or 0)
SortKey(row) ==
    <<row.duration_seconds = None,
      IF row.duration_seconds = None THEN 0 ELSE Val(row.duration_seconds)>>

\* KeyLeq that compares the first component only: rows stay in bib order
MutKeyLeqFlagOnly(a, b) == ~a[1] \/ b[1]

\* tuple comparison a <= b; False sorts before True
KeyLeq(a, b) ==
    \/ ~a[1] /\ b[1]
    \/ a[1] = b[1] /\ a[2] <= b[2]

RECURSIVE InsertRow(_, _)
\* put row behind every row whose key is not larger (list.sort is stable)
InsertRow(sorted, row) ==
    IF Len(sorted) = 0 THEN <<row>>
    ELSE IF KeyLeq(SortKey(sorted[Len(sorted)]), SortKey(row))
    THEN Append(sorted, row)
    ELSE Append(InsertRow(SubSeq(sorted, 1, Len(sorted) - 1), row),
                sorted[Len(sorted)])

RECURSIVE SortRows(_)
SortRows(rows) ==
    IF Len(rows) = 0 THEN <<>>
    ELSE InsertRow(SortRows(SubSeq(rows, 1, Len(rows) - 1)), rows[Len(rows)])

RECURSIVE AssignPositions(_, _)
\* the loop that numbers the finishers, position being the next rank
AssignPositions(rows, position) ==
    IF Len(rows) = 0 THEN <<>>
    ELSE IF Head(rows).duration_seconds = None
    THEN <<[Head(rows) EXCEPT !.position = None]>>
         \o AssignPositions(Tail(rows), position)
    ELSE <<[Head(rows) EXCEPT !.position = Some(position)]>>
         \o AssignPositions(Tail(rows), position + 1)

\* one row of build_results, before ranking
ResultRow(evs, parts, race_id, race_part, participant) ==
    LET non_overall_parts == NonOverallParts(parts, race_id)
        duration ==
            IF race_part.is_overall
            THEN compute_overall_duration(evs, race_id, participant,
                                          non_overall_parts)
            ELSE compute_participant_duration(evs, race_id,
                                              race_part.race_part_id, participant)
        PartText(part) ==
            LET d == compute_participant_duration(evs, race_id,
                                                  part.race_part_id, participant)
            IN IF d = None THEN DNF ELSE format_seconds(Val(d))
    IN [bib |-> participant.participant_id,
        name |-> participant.first_name \o <<" ">> \o participant.last_name,
        group |-> participant.group,
        sex |-> participant.sex,
        duration |-> IF duration = None THEN DNF ELSE format_seconds(Val(duration)),
        duration_seconds |-> duration,
        parts |-> IF race_part.is_overall
                  THEN [i \in 1..Len(non_overall_parts) |->
                           <<non_overall_parts[i].race_part_id,
                             PartText(non_overall_parts[i])>>]
                  ELSE <<>>,
        position |-> None]

\* the participants build_results keeps: empty filter lists keep everyone
PassesFilters(participant, group_filters, sex_filters) ==
    /\ group_filters = {} \/ participant.group \in group_filters
    /\ sex_filters = {} \/ participant.sex \in sex_filters

build_results(evs, parts, people, race_id, race_part, group_filters, sex_filters) ==
    LET ordered == OrderByParticipantId({p \in people : p.race_id = race_id})
        Keep(p) == PassesFilters(p, group_filters, sex_filters)
        kept == SelectSeq(ordered, Keep)
        rows == [i \in 1..Len(kept) |->
                    ResultRow(evs, parts, race_id, race_part, kept[i])]
    IN AssignPositions(SortRows(rows), 1)

\* --------------------------------------------------------------------------
\* Rows of the tables (src/app/models.py)
\* --------------------------------------------------------------------------
\* class RacePart
RacePart(race_id, race_part_id, race_order, is_overall) ==
    [race_id |-> race_id, race_part_id |-> race_part_id,
     race_order |-> race_order, is_overall |-> is_overall]

\* class Participant
Participant(race_id, participant_id, first_name, last_name, group, sex) ==
    [race_id |-> race_id, participant_id |-> participant_id,
     first_name |-> first_name, last_name |-> last_name,
     group |-> group, club |-> <<>>, sex |-> sex]

\* class TimingEvent, with the created_by_username column that
\* ensure_schema_updates adds
TimingEvent(id, race_id, race_part_id, participant_id, group, client_time, server_time, duration_seconds, start_time, end_time, created_by_username) ==
    [id |-> id, race_id |-> race_id, race_part_id |-> race_part_id,
     participant_id |-> participant_id, group |-> group,
     client_time |-> client_time, server_time |-> server_time,
     duration_seconds |-> duration_seconds,
     start_time |-> start_time, end_time |-> end_time,
     created_by_username |-> created_by_username]

\* the Overall stage ensure_overall_race_part keeps in every race
OverallPart(race_id) == RacePart(race_id, "Overall", -1, TRUE)

\* the three payload columns <<duration_seconds, start_time, end_time>>
Payload(e) == <<e.duration_seconds, e.start_time, e.end_time>>

\* --------------------------------------------------------------------------
\* Timing Event Ingestor: helpers (src/app/utils.py, src/app/main.py)
\* --------------------------------------------------------------------------
\* str.upper() on the letters "NOW" is written with
Upper(c) == CASE c = "n" -> "N" [] c = "o" -> "O" [] c = "w" -> "W" [] OTHER -> c

\* parse_time_or_now: Some(instant), or None for the ValueError.  The race
\* date starts at tick 0; datetime.time() rejects fields out of range.
parse_time_or_now(value, server_now) ==
    LET stripped == Strip(value)
        text == [i \in 1..Len(stripped) |-> Upper(stripped[i])]
        parts == Split(text, ":")
        ints == [i \in 1..Len(parts) |-> ToInt(parts[i])]
    IN IF text = <<"N", "O", "W">> THEN Some(server_now)
       ELSE IF Len(parts) # 3 THEN None
       ELSE IF \E i \in 1..3 : ints[i] = None THEN None
       ELSE IF \/ Val(ints[1]) \notin 0..23
               \/ Val(ints[2]) \notin 0..59
               \/ Val(ints[3]) \notin 0..59 THEN None
       ELSE Some((Val(ints[1]) * 3600 + Val(ints[2]) * 60 + Val(ints[3]))
                 * TicksPerSecond)

\* a form field that was left out or left empty reaches the handler as None
Given(field) == field # None /\ Val(field) # <<>>

\* parse_duration_field: <<ok, value>>; ok is FALSE for the HTTP 400
parse_duration_field(field) ==
    IF ~Given(field) THEN <<TRUE, None>>
    ELSE LET v == parse_duration_to_seconds(Val(field))
         IN IF v = None THEN <<FALSE, None>> ELSE <<TRUE, v>>

\* parse_time_field: <<ok, value>>; ok is FALSE for the HTTP 400
parse_time_field(field, server_now) ==
    IF ~Given(field) THEN <<TRUE, None>>
    ELSE LET v == parse_time_or_now(Val(field), server_now)
         IN IF v = None THEN <<FALSE, None>> ELSE <<TRUE, v>>

\* db.get(TimingEvent, event_id): the index of the row, 0 when there is none
EventIndex(evs, event_id) ==
    IF \E i \in 1..Len(evs) : evs[i].id = event_id
    THEN CHOOSE i \in 1..Len(evs) : evs[i].id = event_id
    ELSE 0

\* the guard every stage handler starts with: the race exists and the stage
\* exists in it and is not the Overall stage; otherwise HTTP 404
StageFound(race_id, race_part_id) ==
    /\ race_id \in races
    /\ \E part \in race_parts :
          /\ part.race_id = race_id
          /\ part.race_part_id = race_part_id
          /\ ~part.is_overall

\* create_timing_event, had it left created_by_username out of the row
MutCreateTimingEventAnonymous(evs, id, race_id, race_part_id, participant_id, group, client_time, server_time, payload, created_by_username) ==
    Append(evs, TimingEvent(id, race_id, race_part_id, participant_id, group,
                            client_time, server_time,
                            payload[1], payload[2], payload[3], None))

\* create_timing_event: the table with the new row added
create_timing_event(evs, id, race_id, race_part_id, participant_id, group, client_time, server_time, payload, created_by_username) ==
    Append(evs, TimingEvent(id, race_id, race_part_id, participant_id, group,
                            client_time, server_time,
                            payload[1], payload[2], payload[3],
                            created_by_username))

RECURSIVE FanOut(_, _, _, _, _, _, _, _, _)
\* one create_timing_event per token; stamps[i] is the server time the i-th
\* call reads
FanOut(evs, id, race_id, race_part_id, tokens, client_time, stamps, payload, created_by_username) ==
    IF Len(tokens) = 0 THEN evs
    ELSE LET target == parse_target_token(Head(tokens))
         IN FanOut(create_timing_event(evs, id, race_id, race_part_id,
                                       target[1], target[2], client_time,
                                       Head(stamps), payload, created_by_username),
                   id + 1, race_id, race_part_id, Tail(tokens), client_time,
                   Tail(stamps), payload, created_by_username)

\* the response of a request that changed nothing
Reply(op, status) == [op |-> op, status |-> status]

\* --------------------------------------------------------------------------
\* Timing Event Ingestor: the request handlers (src/app/main.py)
\* --------------------------------------------------------------------------
\* POST .../submit-start
submit_start(race_id, race_part_id, targets, time_value, server_now, stamps) ==
    LET start_dt == parse_time_field(Some(time_value), server_now)
        tokens == parse_comma_list(targets)
    IN IF ~StageFound(race_id, race_part_id)
       THEN /\ resp' = Reply("submit_start", 404)
            /\ UNCHANGED <<events, next_id>>
       ELSE IF ~start_dt[1]
       THEN /\ resp' = Reply("submit_start", 400)
            /\ UNCHANGED <<events, next_id>>
       ELSE /\ events' = FanOut(events, next_id, race_id, race_part_id, tokens,
                                server_now, stamps, <<None, start_dt[2], None>>, None)
            /\ next_id' = next_id + Len(tokens)
            /\ resp' = Reply("submit_start", 303)

\* POST .../submit-duration
submit_duration(race_id, race_part_id, targets, duration, server_now, stamps) ==
    LET duration_seconds == parse_duration_field(Some(duration))
        tokens == parse_comma_list(targets)
    IN IF ~StageFound(race_id, race_part_id)
       THEN /\ resp' = Reply("submit_duration", 404)
            /\ UNCHANGED <<events, next_id>>
       ELSE IF ~duration_seconds[1]
       THEN /\ resp' = Reply("submit_duration", 400)
            /\ UNCHANGED <<events, next_id>>
       ELSE /\ events' = FanOut(events, next_id, race_id, race_part_id, tokens,
                                server_now, stamps,
                                <<duration_seconds[2], None, None>>, None)
            /\ next_id' = next_id + Len(tokens)
            /\ resp' = Reply("submit_duration", 303)

\* POST .../submit-end: with targets one event per token, without targets one
\* pending event; all are stamped with the caller's name
submit_end(race_id, race_part_id, username, targets, time_value, server_now, stamps) ==
    LET end_dt == parse_time_field(Some(time_value), server_now)
        target_tokens == parse_comma_list(targets)
    IN IF ~StageFound(race_id, race_part_id)
       THEN /\ resp' = Reply("submit_end", 404)
            /\ UNCHANGED <<events, next_id>>
       ELSE IF ~end_dt[1]
       THEN /\ resp' = Reply("submit_end", 400)
            /\ UNCHANGED <<events, next_id>>
       ELSE IF Len(target_tokens) > 0
       THEN /\ events' = FanOut(events, next_id, race_id, race_part_id,
                                target_tokens, server_now, stamps,
                                <<None, None, end_dt[2]>>, Some(username))
            /\ next_id' = next_id + Len(target_tokens)
            /\ resp' = Reply("submit_end", 200)
       ELSE /\ events' = create_timing_event(
                             events, next_id, race_id, race_part_id, None, None,
                             server_now, Head(stamps), <<None, None, end_dt[2]>>,
                             Some(username))
            /\ next_id' = next_id + 1
            /\ resp' = Reply("submit_end", 200)

\* the count of given values, had end_time been left out of the list
MutProvidedWithoutEnd(duration, start_time, end_time) ==
    (IF Given(duration) THEN 1 ELSE 0) + (IF Given(start_time) THEN 1 ELSE 0)

\* the number of values among duration, start_time and end_time that are given
Provided(duration, start_time, end_time) ==
    (IF Given(duration) THEN 1 ELSE 0) + (IF Given(start_time) THEN 1 ELSE 0)
    + (IF Given(end_time) THEN 1 ELSE 0)

\* "participant_id" and "group" as Python truth values: 0 and "" are false
TruthyInt(field) == field # None /\ Val(field) # 0

\* group.strip() if group else None
StripGroup(group) == IF Given(group) THEN Some(Strip(Val(group))) ELSE None

\* POST .../manage/timing-events
create_timing_event_manual(race_id, race_part_id, participant_id, group, duration, start_time, end_time, server_now, stamp) ==
    LET duration_seconds == parse_duration_field(duration)
        start_dt == parse_time_field(start_time, server_now)
        end_dt == parse_time_field(end_time, server_now)
    IN IF ~StageFound(race_id, race_part_id)
       THEN /\ resp' = Reply("create_timing_event_manual", 404)
            /\ UNCHANGED <<events, next_id>>
       ELSE IF \/ ~TruthyInt(participant_id) /\ ~Given(group)
               \/ TruthyInt(participant_id) /\ Given(group)
               \/ Provided(duration, start_time, end_time) # 1
               \/ ~duration_seconds[1] \/ ~start_dt[1] \/ ~end_dt[1]
       THEN /\ resp' = Reply("create_timing_event_manual", 400)
            /\ UNCHANGED <<events, next_id>>
       ELSE /\ events' = create_timing_event(
                             events, next_id, race_id, race_part_id,
                             participant_id, StripGroup(group), server_now, stamp,
                             <<duration_seconds[2], start_dt[2], end_dt[2]>>, None)
            /\ next_id' = next_id + 1
            /\ resp' = Reply("create_timing_event_manual", 303)

\* POST .../manage/timing-events/{event_id}/edit
update_timing_event(race_id, race_part_id, event_id, participant_id, group, duration, start_time, end_time, server_now) ==
    LET i == EventIndex(events, event_id)
        duration_seconds == parse_duration_field(duration)
        start_dt == parse_time_field(start_time, server_now)
        end_dt == parse_time_field(end_time, server_now)
    IN IF race_id \notin races \/ i = 0 \/ ~StageFound(race_id, race_part_id)
       THEN /\ resp' = Reply("update_timing_event", 404)
            /\ UNCHANGED <<events, next_id>>
       ELSE IF \/ Provided(duration, start_time, end_time) # 1
               \/ ~duration_seconds[1] \/ ~start_dt[1] \/ ~end_dt[1]
       THEN /\ resp' = Reply("update_timing_event", 400)
            /\ UNCHANGED <<events, next_id>>
       ELSE /\ events' = [events EXCEPT ![i] =
                             [@ EXCEPT !.participant_id = participant_id,
                                       !.group = StripGroup(group),
                                       !.duration_seconds = duration_seconds[2],
                                       !.start_time = start_dt[2],
                                       !.end_time = end_dt[2]]]
            /\ next_id' = next_id
            /\ resp' = Reply("update_timing_event", 303)

\* the checks of submit_end_targets on the rows it reads: 200 when the claim
\* may go ahead, else the status of the HTTPException
ClaimStatus(evs, race_id, race_part_id, event_id, username, targets) ==
    LET i == EventIndex(evs, event_id)
    IN IF ~StageFound(race_id, race_part_id) THEN 404
       ELSE IF \/ i = 0
               \/ evs[i].race_id # race_id
               \/ evs[i].race_part_id # race_part_id
               \/ evs[i].created_by_username # Some(username) THEN 404
       ELSE IF \/ evs[i].participant_id # None
               \/ evs[i].group # None
               \/ evs[i].end_time = None THEN 404
       ELSE IF Len(parse_comma_list(targets)) = 0 THEN 400
       ELSE 200

RECURSIVE Duplicates(_, _, _, _, _)
\* the loop over target_tokens[1:]: one copy of the loaded event per token
Duplicates(evs, id, loaded, tokens, username) ==
    IF Len(tokens) = 0 THEN evs
    ELSE LET target == parse_target_token(Head(tokens))
         IN Duplicates(
                Append(evs, TimingEvent(id, loaded.race_id, loaded.race_part_id,
                                        target[1], target[2],
                                        loaded.client_time, loaded.server_time,
                                        loaded.duration_seconds,
                                        loaded.start_time, loaded.end_time,
                                        Some(username))),
                id + 1, loaded, Tail(tokens), username)

\* the flush of submit_end_targets, had the loop run over every token instead
\* of target_tokens[1:]
MutClaimWriteEveryToken(evs, id, loaded, tokens, username) ==
    LET first == parse_target_token(tokens[1])
        i == EventIndex(evs, loaded.id)
        updated == [evs EXCEPT ![i] =
                       [@ EXCEPT !.participant_id = first[1], !.group = first[2]]]
    IN Duplicates(updated, id, loaded, tokens, username)

\* the flush of submit_end_targets against the table evs, for the event as
\* it was loaded: the UPDATE carries the attributes whose value differs from
\* the loaded one, then the duplicates are inserted
ClaimWrite(evs, id, loaded, tokens, username) ==
    LET first == parse_target_token(tokens[1])
        i == EventIndex(evs, loaded.id)
        updated == [evs EXCEPT ![i] =
                       [@ EXCEPT !.participant_id =
                                     IF first[1] # loaded.participant_id
                                     THEN first[1] ELSE @,
                                 !.group =
                                     IF first[2] # loaded.group
                                     THEN first[2] ELSE @]]
    IN Duplicates(updated, id, loaded, Tail(tokens), username)

\* the history of successful claims after one more claim of event_id
CountClaim(log, event_id) ==
    IF \E k \in 1..Len(log) : log[k][1] = event_id
    THEN [k \in 1..Len(log) |->
             IF log[k][1] = event_id THEN <<event_id, 2>> ELSE log[k]]
    ELSE Append(log, <<event_id, 1>>)

\* POST .../submit-end/{event_id}/targets, run without interruption
submit_end_targets(race_id, race_part_id, event_id, username, targets) ==
    LET status == ClaimStatus(events, race_id, race_part_id, event_id,
                              username, targets)
        tokens == parse_comma_list(targets)
    IN IF status # 200
       THEN /\ resp' = [op |-> "submit_end_targets", status |-> status,
                        event_id |-> event_id, tokens |-> tokens]
            /\ UNCHANGED <<events, next_id, claimed, race_part_start_times>>
       ELSE /\ events' = ClaimWrite(events, next_id,
                                    events[EventIndex(events, event_id)],
                                    tokens, username)
            /\ next_id' = next_id + Len(tokens) - 1
            /\ claimed' = CountClaim(claimed, event_id)
            /\ UNCHANGED race_part_start_times
            /\ resp' = [op |-> "submit_end_targets", status |-> 200,
                        event_id |-> event_id, tokens |-> tokens]

\* datetime.fromisoformat of a CSV time field: <<"iso", t>> is the ISO text
\* of instant t; any other text is a ValueError, written None
fromisoformat(text) ==
    IF Len(text) = 2 /\ text[1] = "iso" THEN Some(text[2]) ELSE None

\* one CSV time field: <<ok, value>>, value being None for an empty field
CsvTime(text) ==
    IF text = <<>> THEN <<TRUE, None>>
    ELSE IF fromisoformat(text) = None THEN <<FALSE, None>>
    ELSE <<TRUE, fromisoformat(text)>>

\* the duration field of a CSV row: <<ok, value>>
CsvDuration(text) ==
    IF text = <<>> THEN <<TRUE, None>>
    ELSE IF parse_duration_to_seconds(text) = None THEN <<FALSE, None>>
    ELSE <<TRUE, parse_duration_to_seconds(text)>>

\* whether every field of a CSV row parses
CsvRowParses(row) ==
    /\ CsvTime(row.client_time)[1] /\ CsvTime(row.server_time)[1]
    /\ CsvTime(row.start_time)[1] /\ CsvTime(row.end_time)[1]
    /\ CsvDuration(row.duration)[1]

\* the event an "added" row makes
CsvAddedEvent(id, race_id, race_part_id, row, now) ==
    TimingEvent(id, race_id, race_part_id, row.participant_id, row.group,
                IF row.client_time = <<>> THEN now ELSE Val(CsvTime(row.client_time)[2]),
                IF row.server_time = <<>> THEN now ELSE Val(CsvTime(row.server_time)[2]),
                CsvDuration(row.duration)[2],
                CsvTime(row.start_time)[2], CsvTime(row.end_time)[2], None)

\* the event a "modified" row leaves
CsvModifiedEvent(event, row) ==
    [event EXCEPT
        !.participant_id = row.participant_id,
        !.group = row.group,
        !.client_time = IF row.client_time = <<>> THEN @
                        ELSE Val(CsvTime(row.client_time)[2]),
        !.server_time = IF row.server_time = <<>> THEN @
                        ELSE Val(CsvTime(row.server_time)[2]),
        !.duration_seconds = CsvDuration(row.duration)[2],
        !.start_time = CsvTime(row.start_time)[2],
        !.end_time = CsvTime(row.end_time)[2]]

RECURSIVE CsvAddRows(_, _, _, _, _, _)
\* the loop over preview["added"]
CsvAddRows(evs, id, race_id, race_part_id, rows, now) ==
    IF Len(rows) = 0 THEN evs
    ELSE CsvAddRows(Append(evs, CsvAddedEvent(id, race_id, race_part_id,
                                              Head(rows), now)),
                    id + 1, race_id, race_part_id, Tail(rows), now)

RECURSIVE CsvModifyRows(_, _)
\* the loop over preview["modified"]; a row whose id is not stored is skipped
CsvModifyRows(evs, rows) ==
    IF Len(rows) = 0 THEN evs
    ELSE LET row == Head(rows)
             i == IF row.id = None THEN 0 ELSE EventIndex(evs, Val(row.id))
         IN CsvModifyRows(
                IF i = 0 THEN evs
                ELSE [evs EXCEPT ![i] = CsvModifiedEvent(@, row)],
                Tail(rows))

\* POST .../manage/timing-events/csv/apply; a row that does not parse raises
\* before the commit (HTTP 500) and nothing is stored.  autoflush is the
\* session setting of app/db.py (not among the sources): with it db.get sees
\* the rows added by the same request
apply_timing_events_csv(race_id, race_part_id, preview, now, autoflush) ==
    IF ~StageFound(race_id, race_part_id)
    THEN /\ resp' = Reply("apply_timing_events_csv", 404)
         /\ UNCHANGED <<events, next_id>>
    ELSE IF \E k \in 1..Len(preview.added) : ~CsvRowParses(preview.added[k])
    THEN /\ resp' = Reply("apply_timing_events_csv", 500)
         /\ UNCHANGED <<events, next_id>>
    ELSE IF \E k \in 1..Len(preview.modified) :
               /\ preview.modified[k].id # None
               /\ EventIndex(events, Val(preview.modified[k].id)) # 0
               /\ ~CsvRowParses(preview.modified[k])
    THEN /\ resp' = Reply("apply_timing_events_csv", 500)
         /\ UNCHANGED <<events, next_id>>
    ELSE /\ events' =
              IF autoflush
              THEN CsvModifyRows(
                       CsvAddRows(events, next_id, race_id, race_part_id,
                                  preview.added, now),
                       preview.modified)
              ELSE CsvAddRows(CsvModifyRows(events, preview.modified), next_id,
                              race_id, race_part_id, preview.added, now)
         /\ next_id' = next_id + Len(preview.added)
         /\ resp' = Reply("apply_timing_events_csv", 303)

\* --------------------------------------------------------------------------
\* The store the read-only models start from
\* --------------------------------------------------------------------------
GroupA == <<"A">>
GroupB == <<"B">>

Idle == [op |-> "none"]
NoRequests == <<>>
NoClaims == <<>>

ReadRaces == {"R1", "R2"}

ReadParts ==
    {OverallPart("R1"), RacePart("R1", "S1", 1, FALSE), RacePart("R1", "S2", 2, FALSE),
     OverallPart("R2"), RacePart("R2", "S1", 1, FALSE)}

ReadParticipants ==
    {Participant("R1", 1, <<"A">>, <<"N">>, GroupA, <<"W">>),
     Participant("R1", 2, <<"B">>, <<"O">>, GroupB, <<"K">>),
     Participant("R2", 1, <<"K">>, <<"O">>, GroupA, <<"W">>)}

\* timing events with ids 1..n whose other columns come from pool
EventTables(pool, n) ==
    UNION {{[i \in 1..k |-> [f[i] EXCEPT !.id = i]] : f \in [1..k -> pool]} : k \in 0..n}

\* <<participant_id, group>> pairs that reach bib 1 of group A
DurationTargets == {<<Some(1), None>>, <<None, Some(GroupA)>>}

\* payloads: whole and half seconds, zero, equal start and end, and a row
\* as a CSV apply can leave it, with two kinds at once
DurationPayloads ==
    {<<Some(0), None, None>>, <<Some(2), None, None>>,
     <<None, Some(1), None>>, <<None, Some(4), None>>,
     <<None, None, Some(1)>>, <<None, None, Some(3)>>, <<None, None, Some(8)>>,
     <<Some(3), Some(2), None>>}

\* events for bib 1, and one for bib 2 that would win if it were gathered
DurationPool ==
    {TimingEvent(0, "R1", "S1", t[1], t[2], 0, 0, p[1], p[2], p[3], None) :
        t \in DurationTargets, p \in DurationPayloads}
    \cup {TimingEvent(0, "R1", "S1", Some(2), None, 0, 0, Some(-1), None, None, None)}

\* answering one duration query: the events read and the value computed
ResolveDuration(race_id, race_part_id, participant) ==
    /\ out' = [op |-> "compute_participant_duration",
               race_id |-> race_id, race_part_id |-> race_part_id,
               participant |-> participant,
               gathered |-> GatheredEvents(events, race_id, race_part_id, participant),
               result |-> compute_participant_duration(
                              events, race_id, race_part_id, participant)]
    /\ UNCHANGED <<races, race_parts, participants, events, next_id, resp, reqs, claimed, race_part_start_times>>

Resolve ==
    \E part \in race_parts : \E participant \in participants :
        /\ ~part.is_overall
        /\ participant.race_id = part.race_id
        /\ ResolveDuration(part.race_id, part.race_part_id, participant)

InitDuration ==
    /\ races = {"R1"}
    /\ race_parts = {p \in ReadParts : p.race_id = "R1" /\ p.race_part_id # "S2"}
    /\ participants = {p \in ReadParticipants : p.race_id = "R1"}
    /\ events \in EventTables(DurationPool, MaxDurationEvents)
    /\ next_id = Len(events) + 1
    /\ resp = Idle
    /\ reqs = NoRequests
    /\ out = Idle
    /\ claimed = NoClaims
    /\ race_part_start_times = {}

SpecDuration == InitDuration /\ [][Resolve]_vars

\* <<race_id, race_part_id>> pairs an event can be filed under
GatherPlaces == {<<"R1", "S1">>, <<"R1", "S2">>, <<"R2", "S1">>}

\* targets: the two bibs, the two groups and none (a pending event)
GatherTargets ==
    {<<Some(1), None>>, <<Some(2), None>>, <<None, Some(GroupA)>>,
     <<None, Some(GroupB)>>, <<None, None>>}

GatherPayloads ==
    {<<Some(5), None, None>>, <<None, Some(0), None>>, <<None, None, Some(4)>>}

GatherPool ==
    {TimingEvent(0, w[1], w[2], t[1], t[2], 0, 0, p[1], p[2], p[3], None) :
        w \in GatherPlaces, t \in GatherTargets, p \in GatherPayloads}

InitGather ==
    /\ races = ReadRaces
    /\ race_parts = ReadParts
    /\ participants = ReadParticipants
    /\ events \in EventTables(GatherPool, MaxGatherEvents)
    /\ next_id = Len(events) + 1
    /\ resp = Idle
    /\ reqs = NoRequests
    /\ out = Idle
    /\ claimed = NoClaims
    /\ race_part_start_times = {}

SpecGather == InitGather /\ [][Resolve]_vars

\* --------------------------------------------------------------------------
\* The store and the queries of the results model
\* --------------------------------------------------------------------------
\* a race with no stage, with one, and with two besides Overall
ResultStageSets ==
    {{OverallPart("R1")},
     {OverallPart("R1"), RacePart("R1", "S1", 1, FALSE)},
     {OverallPart("R1"), RacePart("R1", "S1", 2, FALSE), RacePart("R1", "S2", 1, FALSE)}}

ResultParticipants ==
    {Participant("R1", 1, <<"A">>, <<"N">>, GroupA, <<"W">>),
     Participant("R1", 2, <<"B">>, <<"O">>, GroupB, <<"K">>),
     Participant("R1", 3, <<"K">>, <<"O">>, GroupA, <<"W">>)}

ResultTargets ==
    {<<Some(1), None>>, <<Some(2), None>>, <<Some(3), None>>, <<None, Some(GroupA)>>}

ResultPool ==
    {TimingEvent(0, "R1", s, t[1], t[2], 0, 0, Some(d), None, None, None) :
        s \in {"S1", "S2"}, t \in ResultTargets, d \in {0, 70}}

\* <<group_filters, sex_filters>> of a results query
ResultFilters == {<<{}, {}>>, <<{GroupA}, {}>>, <<{}, {<<"K">>}>>}

\* answering one results query
BuildResults ==
    \E race_part \in race_parts : \E f \in ResultFilters :
        /\ out' = [op |-> "build_results",
                   race_id |-> race_part.race_id, race_part |-> race_part,
                   group_filters |-> f[1], sex_filters |-> f[2],
                   rows |-> build_results(events, race_parts, participants,
                                          race_part.race_id, race_part, f[1], f[2])]
        /\ UNCHANGED <<races, race_parts, participants, events, next_id, resp, reqs, claimed, race_part_start_times>>

InitResults ==
    /\ races = {"R1"}
    /\ race_parts \in ResultStageSets
    /\ participants = ResultParticipants
    /\ events \in EventTables(ResultPool, MaxResultEvents)
    /\ next_id = Len(events) + 1
    /\ resp = Idle
    /\ reqs = NoRequests
    /\ out = Idle
    /\ claimed = NoClaims
    /\ race_part_start_times = {}

SpecResults == InitResults /\ [][BuildResults]_vars

\* --------------------------------------------------------------------------
\* The request model: the store under any sequence of timing-event requests
\* --------------------------------------------------------------------------
Users == {"u1", "u2"}

NOW == <<"N", "O", "W">>

\* race and stage as named in the URL: two stages that take events, the
\* Overall stage and a race that does not exist
UrlPlaces == {<<"R1", "S1">>, <<"R2", "S1">>, <<"R1", "Overall">>, <<"R9", "S1">>}

\* the targets field: empty, a bib, a group, and a bib with a group
TargetTexts == {<<>>, <<"1">>, <<"A">>, <<"1", ",", " ", "A">>}

\* the time field: NOW, a clock time and a malformed text
TimeTexts == {NOW, <<"0", "0", ":", "0", "0", ":", "0", "1">>, <<"1", ":", "2">>}

\* the duration field: MM:SS and a malformed text
DurationTexts == {<<"0", "0", ":", "0", "5">>, <<"5">>}

\* the instants the server clock shows when it is read
Nows == {3}

\* the form fields <<duration, start_time, end_time>> of a manual create or
\* an edit: one kind each, none, two at once and a malformed one
FormPayloads ==
    {<<Some(<<"0", "0", ":", "0", "5">>), None, None>>,
     <<None, Some(NOW), None>>,
     <<None, None, Some(NOW)>>,
     <<None, None, None>>,
     <<Some(<<"0", "0", ":", "0", "5">>), Some(NOW), None>>,
     <<Some(<<"5">>), None, None>>}

\* one row of a timing-events CSV preview
CsvRow(id, participant_id, group, duration, start_time, end_time) ==
    [id |-> id, participant_id |-> participant_id, group |-> group,
     client_time |-> <<>>, server_time |-> <<>>,
     duration |-> duration, start_time |-> start_time, end_time |-> end_time]

\* rows without id: a plain duration for bib 1, a row with two targets and
\* two payload kinds, an empty row, a row that does not parse
CsvAddedRows ==
    {CsvRow(None, Some(1), None, <<"0", "0", ":", "0", "5">>, <<>>, <<>>),
     CsvRow(None, Some(1), Some(GroupA), <<"0", "0", ":", "0", "5">>, <<"iso", 2>>, <<>>),
     CsvRow(None, None, None, <<>>, <<>>, <<>>),
     CsvRow(None, Some(1), None, <<"5">>, <<>>, <<>>)}

\* rows with id: an end time without target and a duration for group A
CsvModifiedRows ==
    {CsvRow(Some(i), None, None, <<>>, <<>>, <<"iso", 2>>) : i \in 1..2}
    \cup {CsvRow(Some(i), None, Some(GroupA), <<"0", "0", ":", "0", "5">>, <<>>, <<>>) : i \in 1..2}

\* the previews an apply request can carry
CsvPreviews ==
    {[added |-> <<a>>, modified |-> <<>>] : a \in CsvAddedRows}
    \cup {[added |-> <<>>, modified |-> <<m>>] : m \in CsvModifiedRows}
    \cup {[added |-> <<a>>, modified |-> <<m>>] : a \in CsvAddedRows, m \in CsvModifiedRows}

\* the server times the create_timing_event calls of one request read
StampsAt(now) == [k \in 1..(MaxEvents + 1) |-> now]

\* everything a timing-event request leaves alone
Untouched == UNCHANGED <<races, race_parts, participants, reqs, out>>

SubmitStart ==
    \E place \in UrlPlaces, targets \in TargetTexts \ {<<>>}, time_value \in TimeTexts, now \in Nows :
        /\ submit_start(place[1], place[2], targets, time_value, now, StampsAt(now))
        /\ Len(events') <= MaxEvents
        /\ UNCHANGED <<claimed, race_part_start_times>>
        /\ Untouched

SubmitDuration ==
    \E place \in UrlPlaces, targets \in TargetTexts \ {<<>>}, duration \in DurationTexts, now \in Nows :
        /\ submit_duration(place[1], place[2], targets, duration, now, StampsAt(now))
        /\ Len(events') <= MaxEvents
        /\ UNCHANGED <<claimed, race_part_start_times>>
        /\ Untouched

SubmitEnd ==
    \E place \in UrlPlaces, username \in Users, targets \in TargetTexts, time_value \in TimeTexts, now \in Nows :
        /\ submit_end(place[1], place[2], username, targets, time_value, now, StampsAt(now))
        /\ Len(events') <= MaxEvents
        /\ UNCHANGED <<claimed, race_part_start_times>>
        /\ Untouched

CreateTimingEventManual ==
    \E place \in UrlPlaces, participant_id \in {None, Some(0), Some(1)}, group \in {None, Some(GroupA)}, f \in FormPayloads, now \in Nows :
        /\ create_timing_event_manual(place[1], place[2], participant_id, group,
                                      f[1], f[2], f[3], now, now)
        /\ Len(events') <= MaxEvents
        /\ UNCHANGED <<claimed, race_part_start_times>>
        /\ Untouched

UpdateTimingEvent ==
    \E place \in UrlPlaces, event_id \in 1..next_id, participant_id \in {None, Some(1)}, group \in {None, Some(GroupA)}, f \in FormPayloads, now \in Nows :
        /\ update_timing_event(place[1], place[2], event_id, participant_id, group,
                               f[1], f[2], f[3], now)
        /\ UNCHANGED <<claimed, race_part_start_times>>
        /\ Untouched

ApplyTimingEventsCsv ==
    \E place \in UrlPlaces, preview \in CsvPreviews, now \in Nows, autoflush \in BOOLEAN :
        /\ apply_timing_events_csv(place[1], place[2], preview, now, autoflush)
        /\ Len(events') <= MaxEvents
        /\ UNCHANGED <<claimed, race_part_start_times>>
        /\ Untouched

SubmitEndTargets ==
    \E place \in UrlPlaces, event_id \in 1..next_id, username \in Users, targets \in TargetTexts :
        /\ submit_end_targets(place[1], place[2], event_id, username, targets)
        /\ Len(events') <= MaxEvents
        /\ Untouched

Init ==
    /\ races = ReadRaces
    /\ race_parts = {p \in ReadParts : p.race_part_id # "S2"}
    /\ participants = ReadParticipants
    /\ events = <<>>
    /\ next_id = 1
    /\ resp = Idle
    /\ reqs = NoRequests
    /\ out = Idle
    /\ claimed = NoClaims
    /\ race_part_start_times = {}

Next ==
    \/ SubmitStart
    \/ SubmitDuration
    \/ SubmitEnd
    \/ CreateTimingEventManual
    \/ UpdateTimingEvent
    \/ ApplyTimingEventsCsv
    \/ SubmitEndTargets

Spec == Init /\ [][Next]_vars

\* --------------------------------------------------------------------------
\* C1, C2: the Duration Resolver
\* --------------------------------------------------------------------------
Resolved == out.op = "compute_participant_duration"

RangeOf(seq) == {seq[i] : i \in 1..Len(seq)}

\* the candidate values of a set of events: every explicit duration, and the
\* whole seconds from start to end for every start and end with end >= start
CandidatesOf(evs) ==
    {Val(e.duration_seconds) : e \in {x \in evs : x.duration_seconds # None}}
    \cup {(Val(e.end_time) - Val(s.start_time)) \div TicksPerSecond :
             <<s, e>> \in {<<x, y>> \in evs \X evs :
                 /\ x.start_time # None
                 /\ y.end_time # None
                 /\ Val(y.end_time) >= Val(x.start_time)}}

\* C1: compute_participant_duration returns the least of the explicit
\* durations and of end minus start (in whole seconds) over every start and
\* end event gathered with end >= start, and DNF (None) exactly when there
\* is no such candidate.
C1_MinimumOfCandidates ==
    Resolved =>
        LET cands == CandidatesOf(RangeOf(out.gathered))
        IN /\ (out.result = None) <=> (cands = {})
           /\ cands # {} =>
                 /\ Val(out.result) \in cands
                 /\ \A c \in cands : Val(out.result) <= c

\* two starts, an end and an explicit duration are gathered, and a start/end
\* combination beats the explicit duration
C1_Witness ==
    /\ Resolved
    /\ out.result # None
    /\ LET g == RangeOf(out.gathered)
       IN /\ Cardinality({e \in g : e.start_time # None}) >= 2
          /\ \E e \in g : e.end_time # None
          /\ \E e \in g : /\ e.duration_seconds # None
                          /\ Val(out.result) < Val(e.duration_seconds)

\* C2: the events gathered for a participant in stage S of race R are
\* exactly the events of R/S whose bib target is the participant's bib or
\* whose group target is the participant's group; events of another bib,
\* group, stage or race, and events without a target, are left out.
C2_GatheredExactly ==
    Resolved =>
        /\ RangeOf(out.gathered) =
              {e \in RangeOf(events) :
                  /\ e.race_id = out.race_id
                  /\ e.race_part_id = out.race_part_id
                  /\ \/ e.participant_id = Some(out.participant.participant_id)
                     \/ e.group = Some(out.participant.group)}
        /\ Len(out.gathered) = Cardinality(RangeOf(out.gathered))
        /\ out.result = IF CandidatesOf(RangeOf(out.gathered)) = {} THEN None
                        ELSE Some(CHOOSE c \in CandidatesOf(RangeOf(out.gathered)) :
                                 \A d \in CandidatesOf(RangeOf(out.gathered)) : c <= d)

\* a group-targeted event is gathered while an event for the same bib in
\* another race or stage is not
C2_Witness ==
    /\ Resolved
    /\ \E e \in RangeOf(out.gathered) : e.group = Some(out.participant.group)
    /\ \E e \in RangeOf(events) \ RangeOf(out.gathered) :
           e.participant_id = Some(out.participant.participant_id)

\* --------------------------------------------------------------------------
\* C3, C4, C5: the Results Aggregator
\* --------------------------------------------------------------------------
Built == out.op = "build_results"

\* the participant of the queried race a result row stands for
RowParticipant(row) ==
    CHOOSE p \in participants : p.race_id = out.race_id /\ p.participant_id = row.bib

\* the value the Resolver gives a participant in each non-overall stage
StageDurations(participant) ==
    [part \in {q \in race_parts : q.race_id = out.race_id /\ ~q.is_overall} |->
        compute_participant_duration(events, out.race_id, part.race_part_id,
                                     participant)]

RECURSIVE SumOver(_, _)
\* the sum of Val(f[x]) over the elements x of set
SumOver(f, set) ==
    IF set = {} THEN 0
    ELSE LET x == CHOOSE y \in set : TRUE
         IN Val(f[x]) + SumOver(f, set \ {x})

Finishers(rows) == {i \in 1..Len(rows) : rows[i].duration_seconds # None}

\* C3: for every participant of an Overall query, the duration is the sum of
\* the stage durations if every non-overall stage resolves, and DNF as soon as
\* one stage is DNF; every participant the filters keep has one row.
C3_OverallSumOrDNF ==
    (Built /\ out.race_part.is_overall) =>
        /\ \A i \in 1..Len(out.rows) :
              LET d == StageDurations(RowParticipant(out.rows[i]))
              IN out.rows[i].duration_seconds =
                    IF \A part \in DOMAIN d : d[part] # None
                    THEN Some(SumOver(d, DOMAIN d)) ELSE None
        /\ {out.rows[i].bib : i \in 1..Len(out.rows)} =
              {p.participant_id : p \in {q \in participants :
                  /\ q.race_id = out.race_id
                  /\ PassesFilters(q, out.group_filters, out.sex_filters)}}
        /\ Len(out.rows) = Cardinality({out.rows[i].bib : i \in 1..Len(out.rows)})

\* an Overall table over two stages with a participant who finished both
\* and a participant who finished only one of them
C3_Witness ==
    /\ Built /\ out.race_part.is_overall
    /\ Cardinality({q \in race_parts : ~q.is_overall}) = 2
    /\ \E i \in 1..Len(out.rows) :
          /\ out.rows[i].duration_seconds # None
          /\ \A part \in DOMAIN StageDurations(RowParticipant(out.rows[i])) :
                StageDurations(RowParticipant(out.rows[i]))[part] # None
    /\ \E i \in 1..Len(out.rows) :
          /\ out.rows[i].duration_seconds = None
          /\ \E part \in DOMAIN StageDurations(RowParticipant(out.rows[i])) :
                StageDurations(RowParticipant(out.rows[i]))[part] # None

\* C4: every DNF row comes after every finisher, the DNF rows are in bib
\* order, the finishers carry the ranks 1..k in sequence and a DNF row
\* carries no rank.
C4_RanksAndDNFLast ==
    Built =>
        LET rows == out.rows
            k == Cardinality(Finishers(rows))
        IN /\ Finishers(rows) = 1..k
           /\ \A i \in 1..Len(rows) :
                 rows[i].position = IF i <= k THEN Some(i) ELSE None
           /\ \A i, j \in (k + 1)..Len(rows) : i < j => rows[i].bib < rows[j].bib

\* a finisher with a larger bib is listed before two DNF rows
C4_Witness ==
    /\ Built
    /\ Cardinality(Finishers(out.rows)) = 1
    /\ Len(out.rows) = 3
    /\ out.rows[1].bib > out.rows[2].bib

\* C5 as amended: the finishers are in ascending order of duration, equal
\* durations allowed (in bib order), so no finisher is faster than rank 1.
C5_FinishersAscending ==
    Built =>
        \A i, j \in Finishers(out.rows) :
            i < j =>
               \/ Val(out.rows[i].duration_seconds) < Val(out.rows[j].duration_seconds)
               \/ /\ out.rows[i].duration_seconds = out.rows[j].duration_seconds
                  /\ out.rows[i].bib < out.rows[j].bib

\* C5 as stated: consecutive finishers have strictly increasing durations.
C5_FinishersStrictlyAscending ==
    Built =>
        \A i \in Finishers(out.rows) :
            (i + 1) \in Finishers(out.rows) =>
                Val(out.rows[i].duration_seconds)
                    < Val(out.rows[i + 1].duration_seconds)

\* three finishers of whom the one with the middle bib is fastest and the
\* two others tie
C5_Witness ==
    /\ Built
    /\ Cardinality(Finishers(out.rows)) = 3
    /\ out.rows[1].bib = 2
    /\ out.rows[2].duration_seconds = out.rows[3].duration_seconds
    /\ out.rows[1].duration_seconds # out.rows[2].duration_seconds

\* --------------------------------------------------------------------------
\* The stored events under the timing-event requests (Spec)
\* --------------------------------------------------------------------------
\* the payload kinds a stored event holds
PayloadKinds(e) == {k \in 1..3 : Payload(e)[k] # None}

\* C6: every stored TimingEvent has exactly one payload kind, after any
\* sequence of submissions, manual creates, edits, claims and CSV applies.
C6_ExactlyOnePayloadKind ==
    \A i \in 1..Len(events) : Cardinality(PayloadKinds(events[i])) = 1

\* C7: no stored event has both a bib and a group target, and every stored
\* event without a target holds an end timestamp and no other payload.
C7_TargetExclusiveAndPendingIsEnd ==
    \A i \in 1..Len(events) :
        /\ ~(events[i].participant_id # None /\ events[i].group # None)
        /\ (events[i].participant_id = None /\ events[i].group = None)
               => PayloadKinds(events[i]) = {3}

\* C9: in a history of requests that run one after the other, no event is
\* successfully claimed more than once.
C9_ClaimedAtMostOnce ==
    \A k \in 1..Len(claimed) : claimed[k][2] <= 1

\* --------------------------------------------------------------------------
\* Claiming pending end events (SpecClaim)
\* --------------------------------------------------------------------------
\* events a claim request can meet: pending end events of both users whose
\* three times differ, a pending one in the other race, an end event that
\* already has a target and a targetless event without end time
ClaimPool ==
    {TimingEvent(0, "R1", "S1", None, None, 1, 2, None, None, Some(4), Some("u1")),
     TimingEvent(0, "R1", "S1", None, None, 3, 3, None, None, Some(3), Some("u2")),
     TimingEvent(0, "R2", "S1", None, None, 2, 2, None, None, Some(1), Some("u1")),
     TimingEvent(0, "R1", "S1", Some(2), None, 1, 1, None, None, Some(1), Some("u1")),
     TimingEvent(0, "R1", "S1", None, None, 1, 1, None, Some(1), None, Some("u1"))}

\* the targets field of a claim: empty, one token, two and three tokens
ClaimTargetTexts ==
    {<<>>, <<"1">>, <<"A", ",", "2">>, <<"2", ",", " ", "A", ",", "1">>}

ClaimPlaces == {<<"R1", "S1">>, <<"R2", "S1">>, <<"R1", "Overall">>}

ClaimPending ==
    \E place \in ClaimPlaces, event_id \in 1..next_id, username \in Users, targets \in ClaimTargetTexts :
        /\ submit_end_targets(place[1], place[2], event_id, username, targets)
        /\ Untouched

InitClaim ==
    /\ races = ReadRaces
    /\ race_parts = {p \in ReadParts : p.race_part_id # "S2"}
    /\ participants = ReadParticipants
    /\ events \in EventTables(ClaimPool, MaxClaimEvents)
    /\ next_id = Len(events) + 1
    /\ resp = Idle
    /\ reqs = NoRequests
    /\ out = Idle
    /\ claimed = NoClaims
    /\ race_part_start_times = {}

SpecClaim == InitClaim /\ [][ClaimPending]_vars

\* C10: a successful claim with n >= 1 tokens retargets the claimed event to
\* the first token and appends exactly n-1 events, one per further token,
\* each with the claimed event's payload, client time and server time; every
\* other stored event stays as it was.
C10_ClaimRetargetsAndDuplicates ==
    [][(resp'.op = "submit_end_targets" /\ resp'.status = 200) =>
          LET tokens == resp'.tokens
              n == Len(tokens)
              i == CHOOSE k \in 1..Len(events) : events[k].id = resp'.event_id
              first == parse_target_token(tokens[1])
          IN /\ n >= 1
             /\ Len(events') = Len(events) + n - 1
             /\ events'[i] = [events[i] EXCEPT !.participant_id = first[1],
                                               !.group = first[2]]
             /\ \A j \in 1..Len(events) : j # i => events'[j] = events[j]
             /\ \A k \in 2..n :
                    LET copy == events'[Len(events) + k - 1]
                        target == parse_target_token(tokens[k])
                    IN /\ copy.participant_id = target[1]
                       /\ copy.group = target[2]
                       /\ Payload(copy) = Payload(events[i])
                       /\ copy.client_time = events[i].client_time
                       /\ copy.server_time = events[i].server_time
                       /\ copy.race_id = events[i].race_id
                       /\ copy.race_part_id = events[i].race_part_id]_vars

\* a claim with three tokens has succeeded on the first of two stored events:
\* the store holds the retargeted event, the untouched one and two copies
C10_Witness ==
    /\ resp.op = "submit_end_targets"
    /\ resp.status = 200
    /\ resp.event_id = 1
    /\ Len(resp.tokens) = 3
    /\ Len(events) = 4
    /\ events[1].participant_id = Some(2)
    /\ events[3].group = Some(GroupA)
    /\ events[4].participant_id = Some(1)
    /\ events[3].end_time = events[1].end_time
    /\ events[3].client_time # events[3].server_time

\* --------------------------------------------------------------------------
\* Two claim requests served at the same time (SpecClaimRace)
\* --------------------------------------------------------------------------
\* the requests in flight
Workers == {"w1", "w2"}

RaceTargetTexts == {<<>>, <<"1">>, <<"A">>, <<"2", ",", "A">>}

\* the first half of submit_end_targets: the event is read and checked
ClaimRead(w) ==
    /\ reqs[w].pc = "start"
    /\ \E event_id \in 1..next_id, username \in Users, targets \in RaceTargetTexts :
          LET status == ClaimStatus(events, "R1", "S1", event_id, username, targets)
          IN reqs' = [reqs EXCEPT ![w] =
                         IF status = 200
                         THEN [pc |-> "checked", event_id |-> event_id,
                               loaded |-> events[EventIndex(events, event_id)],
                               tokens |-> parse_comma_list(targets),
                               username |-> username]
                         ELSE [pc |-> "done", event_id |-> event_id,
                               status |-> status]]
    /\ UNCHANGED <<races, race_parts, participants, events, next_id, resp, out, claimed, race_part_start_times>>

\* the second half: the retargeting and the copies are written and committed
ClaimCommit(w) ==
    /\ reqs[w].pc = "checked"
    /\ events' = ClaimWrite(events, next_id, reqs[w].loaded, reqs[w].tokens,
                            reqs[w].username)
    /\ next_id' = next_id + Len(reqs[w].tokens) - 1
    /\ claimed' = CountClaim(claimed, reqs[w].event_id)
    /\ UNCHANGED race_part_start_times
    /\ reqs' = [reqs EXCEPT ![w] = [pc |-> "done", event_id |-> reqs[w].event_id,
                                    status |-> 200]]
    /\ UNCHANGED <<races, race_parts, participants, resp, out>>

NextClaimRace == \E w \in Workers : ClaimRead(w) \/ ClaimCommit(w)

InitClaimRace ==
    /\ races = ReadRaces
    /\ race_parts = {p \in ReadParts : p.race_part_id # "S2"}
    /\ participants = ReadParticipants
    /\ events \in EventTables(ClaimPool, MaxRaceEvents) \ {<<>>}
    /\ next_id = Len(events) + 1
    /\ resp = Idle
    /\ reqs = [w \in Workers |-> [pc |-> "start"]]
    /\ out = Idle
    /\ claimed = NoClaims
    /\ race_part_start_times = {}

SpecClaimRace == InitClaimRace /\ [][NextClaimRace]_vars

\* C8: when two claim requests for the same pending event have both been
\* answered, at most one of them succeeded and the event was claimed once.
C8_AtMostOneConcurrentClaim ==
    /\ \A v, w \in Workers :
           (/\ v # w
            /\ reqs[v].pc = "done"
            /\ reqs[w].pc = "done"
            /\ reqs[v].event_id = reqs[w].event_id)
               => ~(reqs[v].status = 200 /\ reqs[w].status = 200)
    /\ \A k \in 1..Len(claimed) : claimed[k][2] < 2

\* --------------------------------------------------------------------------
\* The three submission forms with the request on record (SpecSubmit)
\* --------------------------------------------------------------------------
\* the targets field: empty, one token, two and three tokens
SubmitTargetTexts ==
    {<<>>, <<"1">>, <<"A", ",", " ", "2">>, <<"2", ",", "B", ",", "1">>}

SubmitPlaces == {<<"R1", "S1">>, <<"R1", "Overall">>}

\* the server times the create_timing_event calls of one request read, one
\* after the other: the clock never runs backwards and may move on between
\* two calls
ClockReads(now) ==
    {s \in [1..3 -> now..(now + 1)] : \A i \in 1..2 : s[i] <= s[i + 1]}

\* the request as it was received
Request(op, place, username, targets, server_now, stamps) ==
    [op |-> op, race_id |-> place[1], race_part_id |-> place[2],
     username |-> username, tokens |-> parse_comma_list(targets),
     server_now |-> server_now, stamps |-> stamps]

ReceiveSubmitStart ==
    /\ reqs = NoRequests
    /\ \E place \in SubmitPlaces, targets \in SubmitTargetTexts \ {<<>>}, time_value \in {NOW, <<"1", ":", "2">>} :
      \E now \in Nows : \E stamps \in ClockReads(now) :
        /\ submit_start(place[1], place[2], targets, time_value, now, stamps)
        /\ reqs' = Request("submit_start", place, None, targets, now, stamps)
        /\ UNCHANGED <<races, race_parts, participants, out, claimed, race_part_start_times>>

ReceiveSubmitDuration ==
    /\ reqs = NoRequests
    /\ \E place \in SubmitPlaces, targets \in SubmitTargetTexts \ {<<>>}, duration \in DurationTexts :
      \E now \in Nows : \E stamps \in ClockReads(now) :
        /\ submit_duration(place[1], place[2], targets, duration, now, stamps)
        /\ reqs' = Request("submit_duration", place, None, targets, now, stamps)
        /\ UNCHANGED <<races, race_parts, participants, out, claimed, race_part_start_times>>

ReceiveSubmitEnd ==
    /\ reqs = NoRequests
    /\ \E place \in SubmitPlaces, username \in Users, targets \in SubmitTargetTexts, time_value \in TimeTexts :
      \E now \in Nows : \E stamps \in ClockReads(now) :
        /\ submit_end(place[1], place[2], username, targets, time_value, now, stamps)
        /\ reqs' = Request("submit_end", place, Some(username), targets, now, stamps)
        /\ UNCHANGED <<races, race_parts, participants, out, claimed, race_part_start_times>>

NextSubmit == ReceiveSubmitStart \/ ReceiveSubmitDuration \/ ReceiveSubmitEnd

\* events stored by earlier requests: a start for bib 1, an end for group A
\* and a pending end of u2
SubmitPool ==
    {TimingEvent(0, "R1", "S1", Some(1), None, 1, 1, None, Some(1), None, None),
     TimingEvent(0, "R1", "S1", None, Some(GroupA), 2, 2, None, None, Some(2), Some("u1")),
     TimingEvent(0, "R1", "S1", None, None, 2, 3, None, None, Some(2), Some("u2"))}

\* one submission arrives at a store that earlier requests have filled
InitSubmit ==
    /\ races = ReadRaces
    /\ race_parts = {p \in ReadParts : p.race_part_id # "S2"}
    /\ participants = ReadParticipants
    /\ events \in EventTables(SubmitPool, MaxSubmitEvents)
    /\ next_id = Len(events) + 1
    /\ resp = Idle
    /\ reqs = NoRequests
    /\ out = Idle
    /\ claimed = NoClaims
    /\ race_part_start_times = {}

SpecSubmit == InitSubmit /\ [][NextSubmit]_vars

\* the submission on record was accepted
Accepted == reqs # NoRequests /\ resp.status \in {200, 303}

\* C11: an accepted end submission with an empty target list appends exactly
\* one event; it has no bib and no group, holds an end time and no other
\* payload, and carries the submitting user's name and the server time read
\* when it was created.
C11_PendingEndCreated ==
    [][(reqs'.op = "submit_end" /\ reqs'.tokens = <<>> /\ resp'.status = 200) =>
          /\ Len(events') = Len(events) + 1
          /\ \A i \in 1..Len(events) : events'[i] = events[i]
          /\ LET e == events'[Len(events')]
             IN /\ e.participant_id = None
                /\ e.group = None
                /\ PayloadKinds(e) = {3}
                /\ e.created_by_username = reqs'.username
                /\ e.server_time = reqs'.stamps[1]
                /\ e.race_id = reqs'.race_id
                /\ e.race_part_id = reqs'.race_part_id]_vars

\* u2 has submitted an end time without targets to a store holding one
\* event; the clock moved on before the row was stamped
C11_Witness ==
    /\ Accepted
    /\ reqs.op = "submit_end"
    /\ reqs.tokens = <<>>
    /\ Len(events) = 2
    /\ events[2].participant_id = None
    /\ events[2].group = None
    /\ events[2].end_time # None
    /\ events[2].created_by_username = Some("u2")
    /\ events[2].server_time = 4

\* C12: an accepted submission of one payload with n >= 1 tokens appends
\* exactly n events, the k-th aimed at the k-th token, and all n have the
\* same payload, the same client time and the same server time.
C12_FanOutIdentical ==
    [][(Len(reqs'.tokens) >= 1 /\ resp'.status \in {200, 303}) =>
          LET n == Len(reqs'.tokens)
              base == Len(events)
          IN /\ Len(events') = base + n
             /\ \A k \in 1..n :
                    LET target == parse_target_token(reqs'.tokens[k])
                    IN /\ events'[base + k].participant_id = target[1]
                       /\ events'[base + k].group = target[2]
                       /\ Payload(events'[base + k]) = Payload(events'[base + 1])
                       /\ events'[base + k].client_time = events'[base + 1].client_time
                       /\ events'[base + k].server_time = events'[base + 1].server_time]_vars

\* --------------------------------------------------------------------------
\* The manage page's create and edit forms with the request on record
\* (SpecManage)
\* --------------------------------------------------------------------------
\* one optional form field: left out, left empty, or filled in with text
FieldValues(text) == {None, Some(<<>>), Some(text)}

\* the fields <<duration, start_time, end_time>>: every way of leaving out,
\* leaving empty and filling in, and a duration that does not parse
ManageForms ==
    (FieldValues(<<"0", "0", ":", "0", "5">>) \X FieldValues(NOW) \X FieldValues(NOW))
    \cup {<<Some(<<"5">>), None, None>>}

\* the form as it was received
ManageRequest(op, place, event_id, participant_id, group, f) ==
    [op |-> op, race_id |-> place[1], race_part_id |-> place[2],
     event_id |-> event_id, participant_id |-> participant_id,
     group |-> group, fields |-> f]

ReceiveCreateManual ==
    /\ reqs = NoRequests
    /\ \E place \in SubmitPlaces, participant_id \in {None, Some(0), Some(1)}, group \in {None, Some(GroupA)}, f \in ManageForms :
         \E now \in Nows : \E stamps \in ClockReads(now) :
           /\ create_timing_event_manual(place[1], place[2], participant_id, group,
                                         f[1], f[2], f[3], now, stamps[1])
           /\ reqs' = ManageRequest("create_timing_event_manual", place, None,
                                    participant_id, group, f)
           /\ UNCHANGED <<races, race_parts, participants, out, claimed, race_part_start_times>>

ReceiveUpdate ==
    /\ reqs = NoRequests
    /\ \E place \in SubmitPlaces, event_id \in 1..next_id, participant_id \in {None, Some(1)}, group \in {None, Some(GroupA)}, f \in ManageForms :
         \E now \in Nows :
           /\ update_timing_event(place[1], place[2], event_id, participant_id, group,
                                  f[1], f[2], f[3], now)
           /\ reqs' = ManageRequest("update_timing_event", place, Some(event_id),
                                    participant_id, group, f)
           /\ UNCHANGED <<races, race_parts, participants, out, claimed, race_part_start_times>>

NextManage == ReceiveCreateManual \/ ReceiveUpdate

SpecManage == InitSubmit /\ [][NextManage]_vars

\* the payload kinds a form supplies
Supplied(f) == {k \in 1..3 : f[k] # None /\ f[k] # Some(<<>>)}

\* C13: a manual create or an edit whose form supplies no payload kind, or
\* more than one, is rejected (HTTP 400 when the stage and, for an edit, the
\* event exist; HTTP 404 or 400 otherwise) and the stored events stay as they
\* were.
C13_WrongKindCountRejected ==
    [][(/\ reqs'.op \in {"create_timing_event_manual", "update_timing_event"}
        /\ Cardinality(Supplied(reqs'.fields)) # 1) =>
          /\ resp'.status \in {400, 404}
          /\ events' = events
          /\ next_id' = next_id
          /\ (/\ reqs'.race_part_id = "S1"
              /\ reqs'.op = "update_timing_event" => Val(reqs'.event_id) <= Len(events))
                 => resp'.status = 400]_vars

\* an edit of the stored event that supplied a duration and an end time was
\* answered 400 and the event is as the pool had it
C13_Witness ==
    /\ reqs # NoRequests
    /\ reqs.op = "update_timing_event"
    /\ reqs.event_id = Some(1)
    /\ reqs.race_part_id = "S1"
    /\ Supplied(reqs.fields) = {1, 3}
    /\ resp.status = 400
    /\ events \in EventTables(SubmitPool, MaxSubmitEvents)
    /\ Len(events) = 1

\* --------------------------------------------------------------------------
\* CSV Reconciler: the preview (src/app/main.py, SpecPreview)
\* --------------------------------------------------------------------------
\* dict.get(key): the value, None when the dict has no such key
Get(row, key) == IF key \in DOMAIN row THEN row[key] ELSE None

\* the preview, had a row been compared on its key only
MutDiffRowsKeyOnly(existing, incoming) ==
    Get(existing, "_key") # incoming["_key"]

\* diff_rows: some field of the incoming row differs from the existing row
diff_rows(existing, incoming) ==
    \E key \in DOMAIN incoming : Get(existing, key) # incoming[key]

RECURSIVE PreviewLoop(_, _, _)
\* the loop of build_csv_preview: each row is appended to one of the lists
PreviewLoop(incoming_rows, existing_rows, acc) ==
    IF Len(incoming_rows) = 0 THEN acc
    ELSE LET row == Head(incoming_rows)
             key == row["_key"]
         IN PreviewLoop(
                Tail(incoming_rows), existing_rows,
                IF key \notin DOMAIN existing_rows
                THEN [acc EXCEPT !.added = Append(@, row)]
                ELSE IF diff_rows(existing_rows[key], row)
                THEN [acc EXCEPT !.modified = Append(@, row)]
                ELSE [acc EXCEPT !.ignored = Append(@, row)])

build_csv_preview(incoming_rows, existing_rows) ==
    PreviewLoop(incoming_rows, existing_rows,
                [added |-> <<>>, modified |-> <<>>, ignored |-> <<>>])

\* keys of CSV rows: no key (a row without id) and two ids
PreviewKeys == {None, Some(1), Some(2)}

\* rows with a key and two more fields
PreviewRows ==
    {[f \in {"_key", "group", "duration"} |->
         CASE f = "_key" -> k [] f = "group" -> g [] OTHER -> d] :
        k \in PreviewKeys, g \in {None, Some(GroupA)}, d \in {<<>>, <<"5">>}}

\* the rows a handler reads from its table, by key
PreviewExisting ==
    UNION {{e \in [keys -> PreviewRows] : \A k \in keys : e[k]["_key"] = k} :
              keys \in SUBSET (PreviewKeys \ {None})}

\* the rows of an uploaded file
PreviewIncoming ==
    UNION {[1..n -> PreviewRows] : n \in 0..MaxPreviewRows}

\* the preview of the uploaded rows against the rows read from the table
PreviewUpload ==
    /\ out' = [op |-> "build_csv_preview", incoming |-> reqs.incoming,
               existing |-> reqs.existing,
               preview |-> build_csv_preview(reqs.incoming, reqs.existing)]
    /\ UNCHANGED <<races, race_parts, participants, events, next_id, resp, reqs, claimed, race_part_start_times>>

InitPreview ==
    /\ races = ReadRaces
    /\ race_parts = ReadParts
    /\ participants = ReadParticipants
    /\ events = <<>>
    /\ next_id = 1
    /\ resp = Idle
    /\ reqs \in [incoming : PreviewIncoming, existing : PreviewExisting]
    /\ out = Idle
    /\ claimed = NoClaims
    /\ race_part_start_times = {}

SpecPreview == InitPreview /\ [][PreviewUpload]_vars

Previewed == out.op = "build_csv_preview"

\* how often a row occurs in a list
Occurrences(rows, row) == Cardinality({i \in 1..Len(rows) : rows[i] = row})

\* C14: every incoming row is in exactly one of the lists added, modified and
\* ignored (as often as the file has it): in added iff its key is not among
\* the existing rows, in modified iff the key is there and some field of the
\* row differs from the existing row, in ignored iff the key is there and
\* every field is equal.
C14_PreviewClassifies ==
    Previewed =>
        \A i \in 1..Len(out.incoming) :
            LET row == out.incoming[i]
                key == row["_key"]
                present == key \in DOMAIN out.existing
                differs == \E f \in DOMAIN row : out.existing[key][f] # row[f]
                total == Occurrences(out.incoming, row)
                a == Occurrences(out.preview.added, row)
                c == Occurrences(out.preview.modified, row)
                g == Occurrences(out.preview.ignored, row)
            IN /\ a + c + g = total
               /\ {a, c, g} \subseteq {0, total}
               /\ (a = total) <=> ~present
               /\ (c = total) <=> (present /\ differs)
               /\ (g = total) <=> (present /\ ~differs)

\* a file of two rows against one existing row: the first row is equal to it
\* and the second differs from it
C14_Witness ==
    /\ Previewed
    /\ Len(out.incoming) = 2
    /\ Len(out.preview.ignored) = 1
    /\ Len(out.preview.modified) = 1
    /\ out.preview.ignored[1] = out.incoming[1]
    /\ out.preview.modified[1] = out.incoming[2]

\* --------------------------------------------------------------------------
\* CSV Reconciler: upload, apply and upload again of one timing-events file
\* (SpecCsvRound)
\* --------------------------------------------------------------------------
\* datetime.isoformat(): the ISO text of instant t
isoformat(t) == <<"iso", t>>

\* the row upload_timing_events_csv makes of one line of the file, whose
\* fields are all text; the ISO texts of the time fields are written without
\* blanks around them, so that strip() leaves them as they are
IncomingRow(line) ==
    LET event_id == Strip(line.id)
        key == IF event_id # <<>> THEN ToInt(event_id) ELSE None
    IN [f \in {"_key", "id", "participant_id", "group", "client_time",
               "server_time", "duration", "start_time", "end_time"} |->
          CASE f = "_key" -> key
            [] f = "id" -> key
            [] f = "participant_id" ->
                   IF line.participant_id # <<>> THEN ToInt(line.participant_id)
                   ELSE None
            [] f = "group" ->
                   IF Strip(line.group) # <<>> THEN Some(Strip(line.group)) ELSE None
            [] f = "duration" -> Strip(line.duration)
            [] OTHER -> line[f]]

\* the row upload_timing_events_csv makes of one stored event
ExistingRow(event) ==
    [f \in {"_key", "id", "participant_id", "group", "client_time",
            "server_time", "duration", "start_time", "end_time"} |->
       CASE f = "_key" -> Some(event.id)
         [] f = "id" -> Some(event.id)
         [] f = "participant_id" -> event.participant_id
         [] f = "group" -> event.group
         [] f = "client_time" -> isoformat(event.client_time)
         [] f = "server_time" -> isoformat(event.server_time)
         [] f = "duration" ->
                IF event.duration_seconds # None
                THEN format_seconds(Val(event.duration_seconds)) ELSE <<>>
         [] f = "start_time" ->
                IF event.start_time # None THEN isoformat(Val(event.start_time))
                ELSE <<>>
         [] OTHER ->
                IF event.end_time # None THEN isoformat(Val(event.end_time))
                ELSE <<>>]

\* POST .../manage/timing-events/csv: the preview of the file against the
\* events of the stage; rows without id go to "added"
upload_timing_events_csv(evs, race_id, race_part_id, file) ==
    LET incoming_rows == [i \in 1..Len(file) |-> IncomingRow(file[i])]
        stored == {i \in 1..Len(evs) :
                      evs[i].race_id = race_id /\ evs[i].race_part_id = race_part_id}
        existing_rows == [key \in {Some(evs[i].id) : i \in stored} |->
                             ExistingRow(evs[EventIndex(evs, Val(key))])]
        Keyed(row) == row["_key"] # None
        Unkeyed(row) == row["_key"] = None
        preview == build_csv_preview(SelectSeq(incoming_rows, Keyed), existing_rows)
    IN [preview EXCEPT !.added = @ \o SelectSeq(incoming_rows, Unkeyed)]

\* one line of a timing-events CSV file
CsvLine(id, participant_id, group, client_time, server_time, duration, start_time, end_time) ==
    [id |-> id, participant_id |-> participant_id, group |-> group,
     client_time |-> client_time, server_time |-> server_time,
     duration |-> duration, start_time |-> start_time, end_time |-> end_time]

\* lines: a duration for bib 1 without id; the same with ids 1 and 2 and both
\* times written out; an end time for group A with id 1; a duration with id 1
\* that is written "0:05"
CsvLines ==
    {CsvLine(<<>>, <<"1">>, <<>>, <<>>, <<>>, <<"0", "0", ":", "0", "5">>, <<>>, <<>>),
     CsvLine(<<"1">>, <<"1">>, <<>>, isoformat(1), isoformat(2), <<"0", "0", ":", "0", "5">>, <<>>, <<>>),
     CsvLine(<<"2">>, <<"1">>, <<>>, isoformat(1), isoformat(2), <<"0", "0", ":", "0", "5">>, <<>>, <<>>),
     CsvLine(<<"1">>, <<>>, <<"A">>, isoformat(2), isoformat(2), <<>>, <<>>, isoformat(4)),
     CsvLine(<<"1">>, <<"1">>, <<>>, isoformat(1), isoformat(2), <<"0", ":", "0", "5">>, <<>>, <<>>)}

CsvFiles == UNION {[1..n -> CsvLines] : n \in 1..MaxCsvRows}

\* the file is uploaded: first against the empty stage, later once more
CsvUpload ==
    /\ reqs.step \in {"start", "applied"}
    /\ out' = [op |-> "upload_timing_events_csv",
               preview |-> upload_timing_events_csv(events, "R1", "S1", reqs.file)]
    /\ reqs' = [reqs EXCEPT !.step = IF @ = "start" THEN "previewed" ELSE "again"]
    /\ UNCHANGED <<races, race_parts, participants, events, next_id, resp, claimed, race_part_start_times>>

\* the preview just shown is applied
CsvApply ==
    /\ reqs.step = "previewed"
    /\ \E now \in Nows, autoflush \in BOOLEAN :
          apply_timing_events_csv("R1", "S1", out.preview, now, autoflush)
    /\ reqs' = [reqs EXCEPT !.step = "applied"]
    /\ UNCHANGED <<races, race_parts, participants, out, claimed, race_part_start_times>>

NextCsvRound == CsvUpload \/ CsvApply

InitCsvRound ==
    /\ races = ReadRaces
    /\ race_parts = {p \in ReadParts : p.race_part_id # "S2"}
    /\ participants = ReadParticipants
    /\ events = <<>>
    /\ next_id = 1
    /\ resp = Idle
    /\ reqs \in [file : CsvFiles, step : {"start"}]
    /\ out = Idle
    /\ claimed = NoClaims
    /\ race_part_start_times = {}

SpecCsvRound == InitCsvRound /\ [][NextCsvRound]_vars

\* C15: the preview of a file against the empty stage puts every row in
\* added, and after that preview has been applied the preview of the same
\* file puts every row in ignored.
C15_RoundTripAllIgnored ==
    /\ reqs.step = "previewed" =>
          /\ Len(out.preview.added) = Len(reqs.file)
          /\ out.preview.modified = <<>>
          /\ out.preview.ignored = <<>>
    /\ reqs.step = "again" =>
          /\ out.preview.added = <<>>
          /\ out.preview.modified = <<>>
          /\ Len(out.preview.ignored) = Len(reqs.file)

\* --------------------------------------------------------------------------
\* Races and stages: the handlers (src/app/main.py)
\* --------------------------------------------------------------------------
\* Race rows are kept by their key; race_date and race_timezone are not part
\* of the state.  The tables are those of the default database of
\* app/settings.py (PostgreSQL): the foreign key race_parts.race_id and the
\* unique constraint uq_race_part are enforced at commit.

\* str.strip() on the race and stage names that are entered
StripName(text) ==
    CASE text = " Overall" -> "Overall" [] text = " R3" -> "R3" [] OTHER -> text

\* date.fromisoformat: <<"date", d>> is the ISO text of day d, any other text
\* is a ValueError
DateParses(text) == Len(text) = 2 /\ text[1] = "date"

\* ensure_overall_race_part: an existing row named Overall is flagged and
\* given order -1, a missing one is added
ensure_overall_race_part(parts, race_id) ==
    IF \E p \in parts : p.race_id = race_id /\ p.race_part_id = "Overall"
    THEN LET existing == CHOOSE p \in parts :
                             p.race_id = race_id /\ p.race_part_id = "Overall"
         IN (parts \ {existing}) \cup {OverallPart(race_id)}
    ELSE parts \cup {OverallPart(race_id)}

RECURSIVE EnsureEach(_, _)
\* ensure_overall_race_part for every added row of a races preview
EnsureEach(parts, rows) ==
    IF Len(rows) = 0 THEN parts
    ELSE EnsureEach(ensure_overall_race_part(parts, Head(rows).race_id), Tail(rows))

\* the response of a race or stage request
AdminReply(op, status, race_id, part) ==
    [op |-> op, status |-> status, race_id |-> race_id, part |-> part]

\* whether the first commit of apply_races_csv fails: a date that does not
\* parse (ValueError) or a race id that is stored already or added twice
\* (IntegrityError)
RaceRowsFail(rs, preview) ==
    \/ \E k \in 1..Len(preview.added) :
          \/ ~DateParses(preview.added[k].race_date)
          \/ preview.added[k].race_id \in rs
          \/ \E j \in 1..Len(preview.added) :
                j # k /\ preview.added[j].race_id = preview.added[k].race_id
    \/ \E k \in 1..Len(preview.modified) :
          /\ preview.modified[k].race_id \in rs
          /\ ~DateParses(preview.modified[k].race_date)

\* the races after the first commit of apply_races_csv
RaceRowsStored(rs, preview) ==
    rs \cup {preview.added[k].race_id : k \in 1..Len(preview.added)}

\* POST /manage/races
create_race(race_id, race_date) ==
    IF ~DateParses(race_date)
    THEN /\ resp' = AdminReply("create_race", 500, StripName(race_id), None)
         /\ UNCHANGED <<races, race_parts>>
    ELSE IF StripName(race_id) \in races
    THEN /\ resp' = AdminReply("create_race", 200, StripName(race_id), None)
         /\ UNCHANGED <<races, race_parts>>
    ELSE /\ races' = races \cup {StripName(race_id)}
         /\ race_parts' = ensure_overall_race_part(race_parts, StripName(race_id))
         /\ resp' = AdminReply("create_race", 303, StripName(race_id), None)

\* POST /manage/races/csv/apply
apply_races_csv(preview) ==
    IF RaceRowsFail(races, preview)
    THEN /\ resp' = AdminReply("apply_races_csv", 500, None, None)
         /\ UNCHANGED <<races, race_parts>>
    ELSE /\ races' = RaceRowsStored(races, preview)
         /\ race_parts' = EnsureEach(race_parts, preview.added)
         /\ resp' = AdminReply("apply_races_csv", 303, None, None)

\* POST /race/{race_id}/manage/race-parts
create_race_part(race_id, race_part_id, race_order) ==
    LET part == RacePart(race_id, StripName(race_part_id), race_order, FALSE)
    IN IF \/ race_id \notin races
          \/ \E p \in race_parts :
                p.race_id = race_id /\ p.race_part_id = part.race_part_id
       THEN /\ resp' = AdminReply("create_race_part", 200, race_id, None)
            /\ UNCHANGED <<races, race_parts>>
       ELSE /\ race_parts' = ensure_overall_race_part(race_parts \cup {part}, race_id)
            /\ resp' = AdminReply("create_race_part", 303, race_id, None)
            /\ UNCHANGED races

\* the delete, had it not spared the Overall stage
MutDeleteRacePartAny(race_id, part) ==
    /\ race_parts' = IF part # None THEN race_parts \ {Val(part)} ELSE race_parts
    /\ resp' = AdminReply("delete_race_part", 303, race_id, part)
    /\ UNCHANGED races

\* POST /race/{race_id}/manage/race-parts/{part_id}/delete; part is the row
\* with that id, None when there is none
delete_race_part(race_id, part) ==
    /\ race_parts' = IF part # None /\ ~Val(part).is_overall
                     THEN race_parts \ {Val(part)} ELSE race_parts
    /\ resp' = AdminReply("delete_race_part", 303, race_id, part)
    /\ UNCHANGED races

\* POST /race/{race_id}/manage/race-parts/{part_id}/edit: the row is written
\* and committed, then the Overall row of the race in the URL is ensured and
\* committed
update_race_part(race_id, part, race_part_id, race_order) ==
    IF part = None
    THEN /\ resp' = AdminReply("update_race_part", 404, race_id, part)
         /\ UNCHANGED <<races, race_parts>>
    ELSE LET old == Val(part)
             new == IF old.is_overall THEN old
                    ELSE [old EXCEPT !.race_part_id = StripName(race_part_id),
                                     !.race_order = race_order]
             written == (race_parts \ {old}) \cup {new}
         IN IF \E p \in race_parts \ {old} :
                  p.race_id = new.race_id /\ p.race_part_id = new.race_part_id
            THEN /\ resp' = AdminReply("update_race_part", 500, race_id, part)
                 /\ UNCHANGED <<races, race_parts>>
            ELSE IF /\ race_id \notin races
                    /\ ensure_overall_race_part(written, race_id) # written
            THEN /\ race_parts' = written
                 /\ resp' = AdminReply("update_race_part", 500, race_id, part)
                 /\ UNCHANGED races
            ELSE /\ race_parts' = ensure_overall_race_part(written, race_id)
                 /\ resp' = AdminReply("update_race_part", 303, race_id, part)
                 /\ UNCHANGED races

\* the rows apply_race_parts_csv adds for preview["added"]
AddedParts(race_id, rows) ==
    {RacePart(race_id, rows[k].race_part_id, rows[k].race_order,
              rows[k].race_part_id = "Overall") : k \in 1..Len(rows)}

RECURSIVE ModifyParts(_, _, _)
\* the loop over preview["modified"]: the order of a stored stage that is not
\* the Overall stage is overwritten
ModifyParts(parts, race_id, rows) ==
    IF Len(rows) = 0 THEN parts
    ELSE LET row == Head(rows)
             found == {p \in parts : /\ p.race_id = race_id
                                     /\ p.race_part_id = row.race_part_id
                                     /\ ~p.is_overall}
         IN ModifyParts(
                (parts \ found) \cup {[p EXCEPT !.race_order = row.race_order] : p \in found},
                race_id, Tail(rows))

\* whether the first commit of apply_race_parts_csv fails (IntegrityError):
\* a row added to a race that is not stored, or under a name that is stored
\* already or added twice
PartRowsFail(parts, race_id, rows) ==
    \E k \in 1..Len(rows) :
        \/ race_id \notin races
        \/ \E p \in parts : p.race_id = race_id /\ p.race_part_id = rows[k].race_part_id
        \/ \E j \in 1..Len(rows) : j # k /\ rows[j].race_part_id = rows[k].race_part_id

\* POST /race/{race_id}/manage/race-parts/csv/apply; autoflush is the session
\* setting of app/db.py (not among the sources): with it the select of a
\* modified row sees the rows added by the same request
apply_race_parts_csv(race_id, preview, autoflush) ==
    LET written ==
            IF autoflush
            THEN ModifyParts(race_parts \cup AddedParts(race_id, preview.added),
                             race_id, preview.modified)
            ELSE ModifyParts(race_parts, race_id, preview.modified)
                     \cup AddedParts(race_id, preview.added)
    IN IF PartRowsFail(race_parts, race_id, preview.added)
       THEN /\ resp' = AdminReply("apply_race_parts_csv", 500, race_id, None)
            /\ UNCHANGED <<races, race_parts>>
       ELSE IF /\ race_id \notin races
               /\ ensure_overall_race_part(written, race_id) # written
       THEN /\ race_parts' = written
            /\ resp' = AdminReply("apply_race_parts_csv", 500, race_id, None)
            /\ UNCHANGED races
       ELSE /\ race_parts' = ensure_overall_race_part(written, race_id)
            /\ resp' = AdminReply("apply_race_parts_csv", 303, race_id, None)
            /\ UNCHANGED races

\* --------------------------------------------------------------------------
\* Races and stages: the requests (SpecRaceAdmin)
\* --------------------------------------------------------------------------
\* race ids as entered or named in the URL: a stored race and a new one
RaceIdTexts == {"R1", "R3", " R3"}

\* stage names as entered
StageNameTexts == {"S1", "S2", "Overall", " Overall"}

\* stage orders as entered: the order reserved for Overall and another one
StageOrders == {-1, 2}

\* the race_date field: an ISO date and a malformed text
DateTexts == {<<"date", 1>>, <<"1", ":", "2">>}

\* one row of a races preview
RaceRow(race_id, race_date) ==
    [race_id |-> race_id, race_date |-> race_date, race_timezone |-> <<>>]

\* the previews an apply request for races can carry
RacePreviews ==
    {[added |-> a, modified |-> c] :
        a \in {<<>>, <<RaceRow("R3", <<"date", 1>>)>>, <<RaceRow("R1", <<"date", 1>>)>>,
               <<RaceRow("R3", <<"1", ":", "2">>)>>},
        c \in {<<>>, <<RaceRow("R1", <<"date", 1>>)>>}}

\* one row of a stages preview
PartRow(race_part_id, race_order) ==
    [race_part_id |-> race_part_id, race_order |-> race_order]

\* the previews an apply request for stages can carry
PartPreviews ==
    {[added |-> a, modified |-> c] :
        a \in {<<>>, <<PartRow("S2", 2)>>, <<PartRow("Overall", 2)>>},
        c \in {<<>>, <<PartRow("S1", -1)>>, <<PartRow("Overall", 2)>>, <<PartRow("S2", -1)>>}}

\* the row a part_id of the URL names: any stored stage, or none
PartsById == {Some(p) : p \in race_parts} \cup {None}

AdminUntouched == UNCHANGED <<participants, events, next_id, reqs, out, claimed, race_part_start_times>>

CreateRace ==
    \E race_id \in RaceIdTexts, race_date \in DateTexts :
        create_race(race_id, race_date) /\ AdminUntouched

ApplyRacesCsv ==
    \E preview \in RacePreviews : apply_races_csv(preview) /\ AdminUntouched

CreateRacePart ==
    \E race_id \in {"R1", "R3"}, race_part_id \in StageNameTexts, race_order \in StageOrders :
        create_race_part(race_id, race_part_id, race_order) /\ AdminUntouched

DeleteRacePart ==
    \E race_id \in {"R1", "R3"}, part \in PartsById :
        delete_race_part(race_id, part) /\ AdminUntouched

UpdateRacePart ==
    \E race_id \in {"R1", "R3"}, part \in PartsById, race_part_id \in StageNameTexts, race_order \in StageOrders :
        update_race_part(race_id, part, race_part_id, race_order) /\ AdminUntouched

ApplyRacePartsCsv ==
    \E race_id \in {"R1", "R3"}, preview \in PartPreviews, autoflush \in BOOLEAN :
        apply_race_parts_csv(race_id, preview, autoflush) /\ AdminUntouched

NextRaceAdmin ==
    \/ CreateRace
    \/ ApplyRacesCsv
    \/ CreateRacePart
    \/ DeleteRacePart
    \/ UpdateRacePart
    \/ ApplyRacePartsCsv

InitRaceAdmin ==
    /\ races = {"R1"}
    /\ race_parts = {p \in ReadParts : p.race_id = "R1" /\ p.race_part_id # "S2"}
    /\ participants = {p \in ReadParticipants : p.race_id = "R1"}
    /\ events = <<>>
    /\ next_id = 1
    /\ resp = Idle
    /\ reqs = NoRequests
    /\ out = Idle
    /\ claimed = NoClaims
    /\ race_part_start_times = {}

SpecRaceAdmin == InitRaceAdmin /\ [][NextRaceAdmin]_vars

\* the rows of race r that are flagged overall or named Overall
OverallRows(parts, r) ==
    {p \in parts : p.race_id = r /\ (p.is_overall \/ p.race_part_id = "Overall")}

\* the table and the tables it becomes when one row is taken away or the
\* Overall row of R1 has lost its flag and its order
NearbyParts ==
    {race_parts} \cup {race_parts \ {p} : p \in race_parts}
    \cup {(race_parts \ {OverallPart("R1")}) \cup {RacePart("R1", "Overall", 2, FALSE)}}

\* the request just answered was a stage delete or edit aimed at an Overall
\* stage
AimedAtOverall(r) ==
    /\ r.op \in {"delete_race_part", "update_race_part"}
    /\ r.part # None
    /\ Val(r.part).is_overall

\* C20: after every completed race create, race CSV apply, stage create,
\* stage edit, stage delete and stage CSV apply each stored race has exactly
\* one row that is flagged overall or named Overall, and it is the row named
\* Overall with the flag set and order -1; a stage delete or edit aimed at an
\* Overall stage leaves races and stages as they were; and
\* ensure_overall_race_part applied twice gives what it gives applied once.
C20_ExactlyOneOverall ==
    /\ [](\A r \in races : OverallRows(race_parts, r) = {OverallPart(r)})
    /\ [](\A parts \in NearbyParts : \A r \in {"R1", "R3"} :
              ensure_overall_race_part(ensure_overall_race_part(parts, r), r)
                  = ensure_overall_race_part(parts, r))
    /\ [][AimedAtOverall(resp') => (race_parts' = race_parts /\ races' = races)]_vars

\* race R3 has been created and has its Overall stage, R1 has got a second
\* stage with the reserved order -1, and the last request was an edit aimed
\* at the Overall stage of R1
C20_Witness ==
    /\ races = {"R1", "R3"}
    /\ OverallPart("R3") \in race_parts
    /\ RacePart("R1", "S2", -1, FALSE) \in race_parts
    /\ resp.op = "update_race_part"
    /\ resp.part = Some(OverallPart("R1"))
    /\ resp.status = 303

\* --------------------------------------------------------------------------
\* The races CSV apply, commit by commit (SpecRaceCommits)
\* --------------------------------------------------------------------------
\* apply_races_csv commits the Race rows, then calls ensure_overall_race_part
\* and commits again; other requests are served between the two commits.
NoCommit == [step |-> "idle"]

\* apply_races_csv up to its first db.commit()
ApplyRacesStore ==
    /\ reqs.step = "idle"
    /\ \E preview \in RacePreviews :
          IF RaceRowsFail(races, preview)
          THEN /\ resp' = AdminReply("apply_races_csv", 500, None, None)
               /\ UNCHANGED <<races, reqs>>
          ELSE /\ races' = RaceRowsStored(races, preview)
               /\ reqs' = [step |-> "stored", op |-> "apply_races_csv",
                           added |-> preview.added]
               /\ resp' = Idle
    /\ UNCHANGED <<race_parts, participants, events, next_id, out, claimed, race_part_start_times>>

\* the rest of apply_races_csv: the Overall rows and the second db.commit()
DeriveOverall ==
    /\ reqs.step = "stored"
    /\ race_parts' = EnsureEach(race_parts, reqs.added)
    /\ resp' = AdminReply(reqs.op, 303, None, None)
    /\ reqs' = NoCommit
    /\ UNCHANGED <<races, participants, events, next_id, out, claimed, race_part_start_times>>

NextRaceCommits ==
    \/ ApplyRacesStore
    \/ DeriveOverall
    \/ CreateRacePart
    \/ DeleteRacePart

InitRaceCommits ==
    /\ races = {"R1"}
    /\ race_parts = {p \in ReadParts : p.race_id = "R1" /\ p.race_part_id # "S2"}
    /\ participants = {p \in ReadParticipants : p.race_id = "R1"}
    /\ events = <<>>
    /\ next_id = 1
    /\ resp = Idle
    /\ reqs = NoCommit
    /\ out = Idle
    /\ claimed = NoClaims
    /\ race_part_start_times = {}

SpecRaceCommits == InitRaceCommits /\ [][NextRaceCommits]_vars

\* C16: in every committed state the rows of an applied races preview are
\* stored all together, and no race is stored without its Overall stage.
C16_ApplyAllOrNothing ==
    /\ reqs.step = "stored" =>
          \A k \in 1..Len(reqs.added) : reqs.added[k].race_id \in races
    /\ \A r \in races : OverallPart(r) \in race_parts

\* --------------------------------------------------------------------------
\* Participants: the handlers
\* --------------------------------------------------------------------------
\* A participant row is named by the row itself where the code names it by
\* its primary key; uq_participant (race_id, participant_id) and the foreign
\* key participants.race_id are enforced at commit.

\* is_valid_group_name: non-empty and starting with a letter
is_valid_group_name(value) == Len(value) > 0 /\ IsAlpha(value[1])

\* whether a row with this race and bib is stored
BibStored(rows, race_id, participant_id) ==
    \E p \in rows : p.race_id = race_id /\ p.participant_id = participant_id

\* POST /race/{race_id}/manage/participants
create_participant(race_id, participant_id, first_name, last_name, group, sex) ==
    LET group_value == Strip(group)
    IN IF ~is_valid_group_name(group_value)
       THEN /\ resp' = Reply("create_participant", 200)
            /\ UNCHANGED participants
       ELSE IF race_id \notin races \/ BibStored(participants, race_id, participant_id)
       THEN /\ resp' = Reply("create_participant", 200)
            /\ UNCHANGED participants
       ELSE /\ participants' = participants \cup
                    {Participant(race_id, participant_id, Strip(first_name),
                                 Strip(last_name), group_value, Strip(sex))}
            /\ resp' = Reply("create_participant", 303)

\* POST /race/{race_id}/manage/participants/{participant_pk}/edit; participant
\* is the row db.get finds, or None.  A bib that another row of the race
\* holds fails the commit (IntegrityError, HTTP 500)
update_participant(race_id, participant, participant_id, first_name, last_name, group, sex) ==
    IF participant = None
    THEN /\ resp' = Reply("update_participant", 404)
         /\ UNCHANGED participants
    ELSE IF BibStored(participants \ {Val(participant)}, Val(participant).race_id,
                      participant_id)
    THEN /\ resp' = Reply("update_participant", 500)
         /\ UNCHANGED participants
    ELSE /\ participants' = (participants \ {Val(participant)}) \cup
                 {[Val(participant) EXCEPT
                      !.participant_id = participant_id,
                      !.first_name = Strip(first_name),
                      !.last_name = Strip(last_name),
                      !.group = Strip(group),
                      !.club = <<>>,
                      !.sex = Strip(sex)]}
         /\ resp' = Reply("update_participant", 303)

\* POST /race/{race_id}/manage/participants/{participant_pk}/delete
delete_participant(race_id, participant) ==
    /\ participants' = IF participant = None THEN participants
                       ELSE participants \ {Val(participant)}
    /\ resp' = Reply("delete_participant", 303)

\* the rows apply_participants_csv validates: added, then modified
\* (a variant that validates the added rows only)
MutCheckedRowsAddedOnly(preview) == preview.added
CheckedRows(preview) == preview.added \o preview.modified

\* the rows the loop over preview["added"] makes, groups stripped
AddedParticipants(race_id, rows) ==
    {[Participant(race_id, rows[k].participant_id, rows[k].first_name,
                  rows[k].last_name, Strip(rows[k].group), rows[k].sex)
         EXCEPT !.club = rows[k].club] : k \in 1..Len(rows)}

RECURSIVE MutModifyParticipantsAnyRace(_, _, _)
\* (a variant whose select leaves the race out)
MutModifyParticipantsAnyRace(rows, race_id, modified) ==
    IF Len(modified) = 0 THEN rows
    ELSE LET row == Head(modified)
             found == {p \in rows : p.participant_id = row.participant_id}
         IN MutModifyParticipantsAnyRace(
                (rows \ found) \cup
                    {[p EXCEPT !.first_name = row.first_name,
                               !.last_name = row.last_name,
                               !.group = Strip(row.group),
                               !.club = row.club,
                               !.sex = row.sex] : p \in found},
                race_id, Tail(modified))
RECURSIVE ModifyParticipants(_, _, _)
\* the loop over preview["modified"]: the row of this race with the bib is
\* overwritten, a bib that is not stored is skipped
ModifyParticipants(rows, race_id, modified) ==
    IF Len(modified) = 0 THEN rows
    ELSE LET row == Head(modified)
             found == {p \in rows : /\ p.race_id = race_id
                                    /\ p.participant_id = row.participant_id}
         IN ModifyParticipants(
                (rows \ found) \cup
                    {[p EXCEPT !.first_name = row.first_name,
                               !.last_name = row.last_name,
                               !.group = Strip(row.group),
                               !.club = row.club,
                               !.sex = row.sex] : p \in found},
                race_id, Tail(modified))

\* whether storing the added rows fails (IntegrityError): a race that is not
\* stored, a bib that is stored already or added twice
ParticipantRowsFail(rows, race_id, added) ==
    \E k \in 1..Len(added) :
        \/ race_id \notin races
        \/ BibStored(rows, race_id, added[k].participant_id)
        \/ \E j \in 1..Len(added) :
              j # k /\ added[j].participant_id = added[k].participant_id

\* POST /race/{race_id}/manage/participants/csv/apply; autoflush is the
\* session setting of app/db.py (not among the sources): with it the select
\* of a modified row sees the rows added by the same request
apply_participants_csv(race_id, preview, autoflush) ==
    IF \E k \in 1..Len(CheckedRows(preview)) :
           ~is_valid_group_name(Strip(CheckedRows(preview)[k].group))
    THEN /\ resp' = Reply("apply_participants_csv", 200)
         /\ UNCHANGED participants
    ELSE IF ParticipantRowsFail(participants, race_id, preview.added)
    THEN /\ resp' = Reply("apply_participants_csv", 500)
         /\ UNCHANGED participants
    ELSE /\ participants' =
              IF autoflush
              THEN ModifyParticipants(
                       participants \cup AddedParticipants(race_id, preview.added),
                       race_id, preview.modified)
              ELSE ModifyParticipants(participants, race_id, preview.modified)
                       \cup AddedParticipants(race_id, preview.added)
         /\ resp' = Reply("apply_participants_csv", 303)

\* --------------------------------------------------------------------------
\* Participants: the requests (SpecParticipants)
\* --------------------------------------------------------------------------
\* the group field as entered: valid, valid once stripped, starting with a
\* digit, blank (an empty field is answered 422 before the handler runs)
GroupTexts == {<<"O">>, <<" ", "O">>, <<"1", "K">>, <<" ">>}

\* the group of a preview row: valid, starting with a digit, empty, blank
PayloadGroupTexts == {<<"O">>, <<"1", "K">>, <<>>, <<" ">>}

\* bibs as entered
Bibs == {1, 2}

\* one row of a participants preview
ParticipantRow(participant_id, group) ==
    [participant_id |-> participant_id, first_name |-> <<"A">>,
     last_name |-> <<"N">>, group |-> group, club |-> <<>>, sex |-> <<"W">>]

\* the previews an apply request for participants can carry: one added row,
\* one modified row, or one of each
ParticipantPreviews ==
    {[added |-> <<ParticipantRow(b, g)>>, modified |-> <<>>] :
        b \in Bibs, g \in PayloadGroupTexts}
    \cup {[added |-> <<>>, modified |-> <<ParticipantRow(b, g)>>] :
        b \in Bibs, g \in PayloadGroupTexts}
    \cup {[added |-> <<ParticipantRow(a, g)>>, modified |-> <<ParticipantRow(b, h)>>] :
        a \in Bibs, b \in Bibs, g \in {<<"O">>, <<"1", "K">>},
        h \in {<<"O">>, <<"1", "K">>, <<" ">>}}

\* the row a participant_pk of the URL names: any stored row, or none
ParticipantsByPk == {Some(p) : p \in participants} \cup {None}

ParticipantsUntouched == UNCHANGED <<races, race_parts, events, next_id, reqs, out, claimed, race_part_start_times>>

CreateParticipant ==
    \E race_id \in {"R1", "R3"}, participant_id \in Bibs, group \in GroupTexts :
        /\ create_participant(race_id, participant_id, <<"A">>, <<"N">>, group, <<"W">>)
        /\ ParticipantsUntouched

UpdateParticipant ==
    \E participant \in ParticipantsByPk, participant_id \in Bibs, group \in GroupTexts :
        /\ update_participant("R1", participant, participant_id, <<"A">>, <<"N">>,
                              group, <<"W">>)
        /\ ParticipantsUntouched

DeleteParticipant ==
    \E participant \in ParticipantsByPk :
        delete_participant("R1", participant) /\ ParticipantsUntouched

ApplyParticipantsCsv ==
    \E race_id \in {"R1", "R3"}, preview \in ParticipantPreviews, autoflush \in BOOLEAN :
        apply_participants_csv(race_id, preview, autoflush) /\ ParticipantsUntouched

NextParticipants ==
    \/ CreateParticipant
    \/ UpdateParticipant
    \/ DeleteParticipant
    \/ ApplyParticipantsCsv
    \/ ReceiveSubmitStart
    \/ ReceiveSubmitDuration
    \/ ReceiveSubmitEnd

InitParticipants ==
    /\ races = ReadRaces
    /\ race_parts = ReadParts
    /\ participants = {p \in ReadParticipants : p.race_id = "R1" /\ p.participant_id = 1}
    /\ events = <<>>
    /\ next_id = 1
    /\ resp = Idle
    /\ reqs = NoRequests
    /\ out = Idle
    /\ claimed = NoClaims
    /\ race_part_start_times = {}

SpecParticipants == InitParticipants /\ [][NextParticipants]_vars

\* C19: in every reachable state, after any sequence of participant creates,
\* edits, CSV applies and event submissions, the group name of every stored
\* participant is non-empty and starts with a letter
C19_StoredGroupsValid ==
    \A p \in participants : is_valid_group_name(p.group)

\* --------------------------------------------------------------------------
\* One CSV apply on a filled store (SpecCsvApply)
\* --------------------------------------------------------------------------
\* the apply request that was served: the table, the place of the URL and the
\* payload
ApplyRequest(op, race_id, race_part_id, preview) ==
    [op |-> op, race_id |-> race_id, race_part_id |-> race_part_id,
     preview |-> preview]

RequestApplyRaces ==
    /\ reqs = NoRequests
    /\ \E preview \in RacePreviews :
        /\ apply_races_csv(preview)
        /\ reqs' = ApplyRequest("apply_races_csv", None, None, preview)
        /\ UNCHANGED <<participants, events, next_id, out, claimed, race_part_start_times>>

RequestApplyRaceParts ==
    /\ reqs = NoRequests
    /\ \E race_id \in {"R1", "R3"}, preview \in PartPreviews, autoflush \in BOOLEAN :
        /\ apply_race_parts_csv(race_id, preview, autoflush)
        /\ reqs' = ApplyRequest("apply_race_parts_csv", race_id, None, preview)
        /\ UNCHANGED <<participants, events, next_id, out, claimed, race_part_start_times>>

RequestApplyParticipants ==
    /\ reqs = NoRequests
    /\ \E race_id \in {"R1", "R3"}, preview \in ParticipantPreviews, autoflush \in BOOLEAN :
        /\ apply_participants_csv(race_id, preview, autoflush)
        /\ reqs' = ApplyRequest("apply_participants_csv", race_id, None, preview)
        /\ UNCHANGED <<races, race_parts, events, next_id, out, claimed, race_part_start_times>>

RequestApplyTimingEvents ==
    /\ reqs = NoRequests
    /\ \E place \in UrlPlaces, preview \in CsvPreviews, now \in Nows, autoflush \in BOOLEAN :
        /\ apply_timing_events_csv(place[1], place[2], preview, now, autoflush)
        /\ reqs' = ApplyRequest("apply_timing_events_csv", place[1], place[2], preview)
        /\ UNCHANGED <<races, race_parts, participants, out, claimed, race_part_start_times>>

NextCsvApply ==
    \/ RequestApplyRaces
    \/ RequestApplyRaceParts
    \/ RequestApplyParticipants
    \/ RequestApplyTimingEvents

\* one apply arrives at a store that earlier requests have filled
InitCsvApply ==
    /\ races = ReadRaces
    /\ race_parts \in {ReadParts, {p \in ReadParts : p.race_part_id # "S2"}}
    /\ participants \in {ReadParticipants,
                         {p \in ReadParticipants : p.participant_id = 1}}
    /\ events \in EventTables(SubmitPool, MaxApplyEvents)
    /\ next_id = Len(events) + 1
    /\ resp = Idle
    /\ reqs = NoRequests
    /\ out = Idle
    /\ claimed = NoClaims
    /\ race_part_start_times = {}

SpecCsvApply == InitCsvApply /\ [][NextCsvApply]_vars

\* the rows of a payload, added and modified
DiffRows(preview) == preview.added \o preview.modified

\* the bibs, stage names and event ids a payload names
DiffBibs(preview) ==
    {DiffRows(preview)[k].participant_id : k \in 1..Len(DiffRows(preview))}
DiffStageNames(preview) ==
    {DiffRows(preview)[k].race_part_id : k \in 1..Len(DiffRows(preview))}
DiffEventIds(preview) ==
    {Val(DiffRows(preview)[k].id) :
        k \in {j \in 1..Len(DiffRows(preview)) : DiffRows(preview)[j].id # None}}

C18_ApplyRechecksGroups ==
    [][(/\ reqs' # reqs
        /\ reqs'.op = "apply_participants_csv"
        /\ \E k \in 1..Len(DiffRows(reqs'.preview)) :
              ~is_valid_group_name(Strip(DiffRows(reqs'.preview)[k].group)))
       => /\ participants' = participants
          /\ resp'.status = 200
    ]_vars

\* a payload whose added row is valid and whose modified row, naming a stored
\* bib, has a group that starts with a digit was rejected
C18_Witness ==
    /\ reqs # NoRequests
    /\ reqs.op = "apply_participants_csv"
    /\ reqs.race_id = "R1"
    /\ Len(reqs.preview.added) = 1
    /\ is_valid_group_name(reqs.preview.added[1].group)
    /\ ~BibStored(participants, "R1", reqs.preview.added[1].participant_id)
    /\ reqs.preview.modified = <<ParticipantRow(1, <<"1", "K">>)>>
    /\ BibStored(participants, "R1", 1)
    /\ resp.status = 200

\* --------------------------------------------------------------------------
\* Stage order
\* --------------------------------------------------------------------------
\* C21: in every reachable state, after any sequence of stage creates, stage
\* edits and stage CSV applies, no two non-overall stages of the same race
\* have the same order value
C21_StageOrdersDistinct ==
    \A p \in race_parts : \A q \in race_parts :
        (/\ p.race_id = q.race_id
         /\ ~p.is_overall /\ ~q.is_overall
         /\ p.race_order = q.race_order)
        => p = q

\* --------------------------------------------------------------------------
\* Wave schedule (src/app/main.py, wave_starts_data)
\* --------------------------------------------------------------------------
\* whether the token list names the participant: by str(participant_id) or
\* by group
InTargetList(participant, target_list) ==
    \E k \in 1..Len(target_list) :
        \/ target_list[k] = NatToText(participant.participant_id)
        \/ target_list[k] = participant.group

RECURSIVE WaveLoop(_, _, _, _, _)
\* the loop over previous_parts with its running total; None once a stage has
\* no duration
WaveLoop(evs, race_id, participant, parts, total) ==
    IF Len(parts) = 0 THEN Some(total)
    ELSE LET duration == compute_participant_duration(
                             evs, race_id, Head(parts).race_part_id, participant)
         IN IF duration = None THEN None
            ELSE WaveLoop(evs, race_id, participant, Tail(parts),
                          total + Val(duration))

\* one entry of the schedule
WaveEntry(participant, total) ==
    [participant_id |-> participant.participant_id, group |-> participant.group,
     offset_seconds |-> total]

RECURSIVE MutInsertEntryFront(_, _)
\* (a variant that puts the entry first)
MutInsertEntryFront(sorted, entry) == <<entry>> \o sorted
RECURSIVE InsertEntry(_, _)
\* put entry behind every entry whose offset is not larger (list.sort is
\* stable)
InsertEntry(sorted, entry) ==
    IF Len(sorted) = 0 THEN <<entry>>
    ELSE IF sorted[Len(sorted)].offset_seconds <= entry.offset_seconds
    THEN Append(sorted, entry)
    ELSE Append(InsertEntry(SubSeq(sorted, 1, Len(sorted) - 1), entry),
                sorted[Len(sorted)])

RECURSIVE SortEntries(_)
\* schedule.sort(key=offset_seconds)
SortEntries(entries) ==
    IF Len(entries) = 0 THEN <<>>
    ELSE InsertEntry(SortEntries(SubSeq(entries, 1, Len(entries) - 1)),
                     entries[Len(entries)])

RECURSIVE MutWaveScheduleSkipsMissing(_, _, _, _)
\* (a variant that leaves a stage without duration out of the sum)
MutWaveScheduleSkipsMissing(evs, race_id, filtered, previous_parts) ==
    IF Len(filtered) = 0 THEN <<>>
    ELSE LET Numeric(part) ==
                 compute_participant_duration(evs, race_id, part.race_part_id,
                                              Head(filtered)) # None
             total == WaveLoop(evs, race_id, Head(filtered),
                               SelectSeq(previous_parts, Numeric), 0)
         IN <<WaveEntry(Head(filtered), Val(total))>>
            \o MutWaveScheduleSkipsMissing(evs, race_id, Tail(filtered), previous_parts)
RECURSIVE WaveSchedule(_, _, _, _)
\* the loop over filtered: an entry for every participant whose previous
\* stages all have a duration
WaveSchedule(evs, race_id, filtered, previous_parts) ==
    IF Len(filtered) = 0 THEN <<>>
    ELSE LET total == WaveLoop(evs, race_id, Head(filtered), previous_parts, 0)
         IN (IF total = None THEN <<>>
             ELSE <<WaveEntry(Head(filtered), Val(total))>>)
            \o WaveSchedule(evs, race_id, Tail(filtered), previous_parts)

\* POST .../submit-start/wave/data: None for HTTP 404, else the schedule.
\* people is the list the select of the race's participants returns; it has
\* no ORDER BY, so its order is the database's choice
wave_starts_data(evs, parts, people, race_id, race_part_id, targets) ==
    IF ~StageFound(race_id, race_part_id) THEN None
    ELSE LET target_list == parse_comma_list(targets)
             Named(p) == InTargetList(p, target_list)
             filtered == SelectSeq(people, Named)
             current_part == CHOOSE q \in parts :
                                 q.race_id = race_id /\ q.race_part_id = race_part_id
             previous_parts ==
                 SortedByRaceOrder({q \in parts :
                                       /\ q.race_id = race_id
                                       /\ ~q.is_overall
                                       /\ q.race_order < current_part.race_order})
         IN Some(SortEntries(WaveSchedule(evs, race_id, filtered, previous_parts)))

\* --------------------------------------------------------------------------
\* The store and the queries of the wave model (SpecWave)
\* --------------------------------------------------------------------------
\* three stages in order, and the same stages with the first two swapped
WaveStageSets ==
    {{OverallPart("R1"), RacePart("R1", "S1", 1, FALSE),
      RacePart("R1", "S2", 2, FALSE), RacePart("R1", "S3", 3, FALSE)},
     {OverallPart("R1"), RacePart("R1", "S1", 2, FALSE),
      RacePart("R1", "S2", 1, FALSE), RacePart("R1", "S3", 3, FALSE)}}

\* durations in the first two stages for a bib or for group A
WavePool ==
    {TimingEvent(0, "R1", s, t[1], t[2], 0, 0, Some(d), None, None, None) :
        s \in {"S1", "S2"},
        t \in {<<Some(1), None>>, <<Some(2), None>>, <<None, Some(GroupA)>>},
        d \in {5, 70}}

\* the targets field: a bib, a group, a bib named twice and with its group,
\* everyone
WaveTargetTexts ==
    {<<"2">>, <<"A">>, <<"1", ",", "1", ",", "A">>, <<"1", ",", "2", ",", " ", "3">>}

\* the stage of the URL: each stage, Overall and a stage that is not stored
WaveStageNames == {"S1", "S2", "S3", "Overall", "S9"}

\* the orders in which the rows of a set can be returned
Orderings(rows) ==
    {f \in [1..Cardinality(rows) -> rows] :
        \A i \in 1..Cardinality(rows) : \A j \in 1..Cardinality(rows) :
            f[i] = f[j] => i = j}

\* answering one wave-schedule request on a filled store
WaveStartsData ==
    /\ out = Idle
    /\ \E race_part_id \in WaveStageNames, targets \in WaveTargetTexts :
      \E people \in Orderings({p \in participants : p.race_id = "R1"}) :
        LET answer == wave_starts_data(events, race_parts, people, "R1",
                                       race_part_id, targets)
        IN /\ out' = [op |-> "wave_starts_data", race_id |-> "R1",
                      race_part_id |-> race_part_id, targets |-> targets,
                      status |-> IF answer = None THEN 404 ELSE 200,
                      schedule |-> IF answer = None THEN <<>> ELSE Val(answer)]
           /\ UNCHANGED <<races, race_parts, participants, events, next_id, resp, reqs, claimed, race_part_start_times>>

InitWave ==
    /\ races = {"R1"}
    /\ race_parts \in WaveStageSets
    /\ participants = ResultParticipants
    /\ events \in EventTables(WavePool, MaxWaveEvents)
    /\ next_id = Len(events) + 1
    /\ resp = Idle
    /\ reqs = NoRequests
    /\ out = Idle
    /\ claimed = NoClaims
    /\ race_part_start_times = {}

SpecWave == InitWave /\ [][WaveStartsData]_vars

\* a wave schedule was returned
Scheduled == out.op = "wave_starts_data" /\ out.status = 200

\* the non-overall stages ordered before the stage of the request
StagesBefore ==
    LET target == CHOOSE q \in race_parts :
                      q.race_id = out.race_id /\ q.race_part_id = out.race_part_id
    IN {q \in race_parts : /\ q.race_id = out.race_id
                           /\ ~q.is_overall
                           /\ q.race_order < target.race_order}

\* the entries of the schedule that stand for a participant
EntriesOf(participant) ==
    {i \in 1..Len(out.schedule) :
        out.schedule[i].participant_id = participant.participant_id}

\* C22: in the wave schedule for stage T every participant the token list
\* names (by bib or by group) has exactly one entry if every non-overall stage
\* ordered before T resolves to a duration for them, and none otherwise; the
\* offset of the entry is the sum of those durations; nobody else is listed
C22_WaveIncludesResolved ==
    Scheduled =>
        /\ \A p \in {q \in participants : q.race_id = out.race_id} :
              LET d == StageDurations(p)
                  named == InTargetList(p, parse_comma_list(out.targets))
                  complete == \A part \in StagesBefore : d[part] # None
              IN IF named /\ complete
                 THEN /\ Cardinality(EntriesOf(p)) = 1
                      /\ \A i \in EntriesOf(p) :
                            out.schedule[i].offset_seconds = SumOver(d, StagesBefore)
                 ELSE EntriesOf(p) = {}
        /\ \A i \in 1..Len(out.schedule) :
              \E p \in participants :
                  /\ p.race_id = out.race_id
                  /\ p.participant_id = out.schedule[i].participant_id

\* the schedule for S3 asked with "1,1,A": bib 1 has a duration in both
\* earlier stages and is listed once with their sum, bib 3 of group A lacks
\* one and is absent
C22_Witness ==
    /\ Scheduled
    /\ out.race_part_id = "S3"
    /\ out.targets = <<"1", ",", "1", ",", "A">>
    /\ Len(out.schedule) = 1
    /\ out.schedule[1].participant_id = 1
    /\ out.schedule[1].offset_seconds = 75
    /\ \E part \in StagesBefore :
          StageDurations(CHOOSE p \in participants : p.participant_id = 3)[part] # None

\* C23 as stated: every entry of a returned wave schedule has a strictly
\* larger offset than the entry before it
C23_WaveStrictlyAscending ==
    Scheduled =>
        \A i \in 1..(Len(out.schedule) - 1) :
            out.schedule[i].offset_seconds < out.schedule[i + 1].offset_seconds

\* C23, amended: the entries of a returned wave schedule are ascending by
\* offset; every entry has a larger or equal offset than the entry before it
C23_WaveAscending ==
    Scheduled =>
        \A i \in 1..(Len(out.schedule) - 1) :
            out.schedule[i].offset_seconds <= out.schedule[i + 1].offset_seconds

\* a schedule of three entries with two different offsets, the database
\* having returned the slowest participant first
C23_Witness ==
    /\ Scheduled
    /\ Len(out.schedule) = 3
    /\ out.schedule[1].offset_seconds < out.schedule[3].offset_seconds
    /\ out.schedule[1].participant_id > out.schedule[3].participant_id

\* --------------------------------------------------------------------------
\* CSV export and the previews of the other tables (src/app/main.py)
\* --------------------------------------------------------------------------
\* str(n) of an integer
IntText(n) == IF n < 0 THEN <<"-">> \o NatToText(0 - n) ELSE NatToText(n)

\* the race_date every stored race has: the one date the requests enter
StoredRaceDate == <<"date", 1>>

\* GET .../manage/timing-events/csv: one line per event of the stage;
\* "participant_id or ''" and "group or ''" write nothing for 0 and for ""
download_timing_events_csv(evs, race_id, race_part_id) ==
    LET InStage(e) == e.race_id = race_id /\ e.race_part_id = race_part_id
        kept == SelectSeq(evs, InStage)
    IN [i \in 1..Len(kept) |->
           CsvLine(IntText(kept[i].id),
                   IF kept[i].participant_id = None \/ kept[i].participant_id = Some(0)
                   THEN <<>> ELSE IntText(Val(kept[i].participant_id)),
                   IF kept[i].group = None THEN <<>> ELSE Val(kept[i].group),
                   isoformat(kept[i].client_time), isoformat(kept[i].server_time),
                   IF kept[i].duration_seconds # None
                   THEN format_seconds(Val(kept[i].duration_seconds)) ELSE <<>>,
                   IF kept[i].start_time # None
                   THEN isoformat(Val(kept[i].start_time)) ELSE <<>>,
                   IF kept[i].end_time # None
                   THEN isoformat(Val(kept[i].end_time)) ELSE <<>>)]

\* GET /race/{race_id}/manage/race-parts/csv: one line per stage, Overall last
download_race_parts_csv(parts, race_id) ==
    LET ordered == SortedByRaceOrder({p \in parts : p.race_id = race_id /\ ~p.is_overall})
                   \o SortedByRaceOrder({p \in parts : p.race_id = race_id /\ p.is_overall})
    IN [i \in 1..Len(ordered) |->
           [race_part_id |-> ordered[i].race_part_id,
            race_order |-> IntText(ordered[i].race_order)]]

\* the row upload_race_parts_csv makes of one line; int() of a malformed
\* order is a ValueError, written None
PartIncomingRow(line) ==
    [f \in {"_key", "race_part_id", "race_order"} |->
        CASE f = "race_order" ->
                 IF line.race_order = <<>> THEN Some(0) ELSE ToInt(line.race_order)
          [] OTHER -> StripName(line.race_part_id)]

\* the row upload_race_parts_csv makes of one stored stage
PartExistingRow(part) ==
    [f \in {"_key", "race_part_id", "race_order"} |->
        CASE f = "race_order" -> Some(part.race_order)
          [] OTHER -> part.race_part_id]

\* POST /race/{race_id}/manage/race-parts/csv: None for a ValueError, else the
\* preview, every row named Overall moved to "ignored"
upload_race_parts_csv(parts, race_id, file) ==
    LET Named(line) == StripName(line.race_part_id) # ""
        lines == SelectSeq(file, Named)
        incoming_rows == [i \in 1..Len(lines) |-> PartIncomingRow(lines[i])]
        stored == {p \in parts : p.race_id = race_id}
        existing_rows == [key \in {p.race_part_id : p \in stored} |->
                             PartExistingRow(CHOOSE p \in stored : p.race_part_id = key)]
        preview == build_csv_preview(incoming_rows, existing_rows)
        IsOverall(row) == row["race_part_id"] = "Overall"
        NotOverall(row) == row["race_part_id"] # "Overall"
    IN IF \E i \in 1..Len(incoming_rows) : incoming_rows[i]["race_order"] = None
       THEN None
       ELSE Some([added |-> SelectSeq(preview.added, NotOverall),
                  modified |-> SelectSeq(preview.modified, NotOverall),
                  ignored |-> preview.ignored
                              \o SelectSeq(preview.modified \o preview.added, IsOverall)])

\* GET /manage/races/csv and POST /manage/races/csv
download_races_csv(rs) ==
    LET RECURSIVE Lines(_)
        Lines(left) ==
            IF left = {} THEN <<>>
            ELSE LET r == CHOOSE x \in left : TRUE
                 IN <<[race_id |-> r, race_date |-> StoredRaceDate]>> \o Lines(left \ {r})
    IN Lines(rs)

upload_races_csv(rs, file) ==
    LET Named(line) == line.race_id # ""
        lines == SelectSeq(file, Named)
        Row(race_id, race_date) ==
            [f \in {"_key", "race_id", "race_date"} |->
                IF f = "race_date" THEN race_date ELSE race_id]
        incoming_rows == [i \in 1..Len(lines) |->
                             Row(StripName(lines[i].race_id), lines[i].race_date)]
        existing_rows == [key \in rs |-> Row(key, StoredRaceDate)]
    IN build_csv_preview(incoming_rows, existing_rows)

\* GET /race/{race_id}/manage/participants/csv: one line per participant of
\* the race, by bib
download_participants_csv(people, race_id) ==
    LET ordered == OrderByParticipantId({p \in people : p.race_id = race_id})
    IN [i \in 1..Len(ordered) |->
           [participant_id |-> IntText(ordered[i].participant_id),
            first_name |-> ordered[i].first_name,
            last_name |-> ordered[i].last_name,
            group |-> ordered[i].group,
            club |-> ordered[i].club,
            sex |-> ordered[i].sex]]

\* the page that lists the invalid group names of a participants file
InvalidGroups == [invalid_groups |-> TRUE]

\* the row upload_participants_csv makes of one line
ParticipantIncomingRow(line) ==
    [f \in {"_key", "participant_id", "first_name", "last_name", "group",
            "club", "sex"} |->
        CASE f \in {"_key", "participant_id"} -> ToInt(Strip(line.participant_id))
          [] OTHER -> Strip(line[f])]

\* the row upload_participants_csv makes of one stored participant
ParticipantExistingRow(participant) ==
    [f \in {"_key", "participant_id", "first_name", "last_name", "group",
            "club", "sex"} |->
        CASE f \in {"_key", "participant_id"} -> Some(participant.participant_id)
          [] OTHER -> participant[f]]

\* POST /race/{race_id}/manage/participants/csv: the preview; InvalidGroups
\* for the page that lists invalid group names, None for a ValueError of
\* int(participant_id)
upload_participants_csv(people, race_id, file) ==
    LET HasBib(line) == Strip(line.participant_id) # <<>>
        lines == SelectSeq(file, HasBib)
        ValidGroup(line) == is_valid_group_name(Strip(line.group))
        valid == SelectSeq(lines, ValidGroup)
        incoming_rows == [i \in 1..Len(valid) |-> ParticipantIncomingRow(valid[i])]
        stored == {p \in people : p.race_id = race_id}
        existing_rows ==
            [key \in {Some(p.participant_id) : p \in stored} |->
                ParticipantExistingRow(CHOOSE p \in stored :
                                           p.participant_id = Val(key))]
        \* the lines are handled in order: the first one that is wrong decides
        FirstBadInt ==
            \E i \in 1..Len(lines) :
                /\ ToInt(Strip(lines[i].participant_id)) = None
                /\ ValidGroup(lines[i])
    IN IF FirstBadInt THEN None
       ELSE IF Len(valid) # Len(lines) THEN Some(InvalidGroups)
       ELSE Some(build_csv_preview(incoming_rows, existing_rows))

RECURSIVE LatestFirst(_, _)
\* ORDER BY server_time DESC over the events at the positions ids
LatestFirst(evs, ids) ==
    IF ids = {} THEN <<>>
    ELSE LET i == CHOOSE k \in ids : \A j \in ids : evs[k].server_time >= evs[j].server_time
         IN <<evs[i]>> \o LatestFirst(evs, ids \ {i})

\* load_pending_end_events: the targetless end events of the stage that the
\* user created, latest server_time first
load_pending_end_events(evs, race_id, race_part_id, created_by_username) ==
    LatestFirst(evs, {i \in 1..Len(evs) :
                         /\ evs[i].race_id = race_id
                         /\ evs[i].race_part_id = race_part_id
                         /\ evs[i].participant_id = None
                         /\ evs[i].group = None
                         /\ evs[i].end_time # None
                         /\ evs[i].created_by_username = Some(created_by_username)})

\* GET .../submit-end/pending: None for HTTP 404, else the serialized list
submit_end_pending(evs, race_id, race_part_id, username) ==
    IF ~StageFound(race_id, race_part_id) THEN None
    ELSE LET pending == load_pending_end_events(evs, race_id, race_part_id, username)
         IN Some([i \in 1..Len(pending) |->
                     [id |-> pending[i].id, end_time |-> pending[i].end_time,
                      server_time |-> pending[i].server_time]])

\* --------------------------------------------------------------------------
\* One read request on a filled store (SpecRead)
\* --------------------------------------------------------------------------
\* one line of a participants file
ParticipantLine(participant_id, group) ==
    [participant_id |-> participant_id, first_name |-> <<"A">>,
     last_name |-> <<"N">>, group |-> group, club |-> <<>>, sex |-> <<"W">>]

\* lines: bib 1 as stored, bib 1 in another group, a new bib, a new bib with
\* a group that starts with a digit, a line without bib, a bib that is no
\* number
ParticipantLines ==
    {ParticipantLine(<<"1">>, GroupA), ParticipantLine(<<"1">>, <<"O">>),
     ParticipantLine(<<"3">>, <<" ", "O">>), ParticipantLine(<<"3">>, <<"1", "K">>),
     ParticipantLine(<<>>, <<"O">>), ParticipantLine(<<"K">>, <<"O">>)}

\* lines of a stages file: S1 as stored, S1 moved, a new stage, Overall with
\* another order, an order that is no number
PartLines ==
    {[race_part_id |-> n, race_order |-> o] :
        n \in {"S1", "S3", "Overall"}, o \in {<<"1">>, <<"5">>}}
    \cup {[race_part_id |-> "S3", race_order |-> <<"K">>]}

\* lines of a races file: R1 as stored, R1 on another day, a new race
RaceLines ==
    {[race_id |-> "R1", race_date |-> <<"date", 1>>],
     [race_id |-> "R1", race_date |-> <<"date", 2>>],
     [race_id |-> " R3", race_date |-> <<"date", 1>>]}

\* files of one or two lines
FilesOf(lines) == [{1} -> lines] \cup [{1, 2} -> lines]

\* what a read request answers
ReadReply(op, answer) == [op |-> op, answer |-> answer]

ReadTablesUnchanged ==
    UNCHANGED <<races, race_parts, participants, events, next_id, resp, reqs, claimed, race_part_start_times>>

ReadResults ==
    /\ out = Idle
    /\ \E race_part \in race_parts : \E f \in ResultFilters :
          out' = ReadReply("build_results",
                           build_results(events, race_parts, participants,
                                         race_part.race_id, race_part, f[1], f[2]))
    /\ ReadTablesUnchanged

ReadWave ==
    /\ out = Idle
    /\ \E race_part_id \in WaveStageNames, targets \in WaveTargetTexts :
       \E people \in Orderings({p \in participants : p.race_id = "R1"}) :
          out' = ReadReply("wave_starts_data",
                           wave_starts_data(events, race_parts, people, "R1",
                                            race_part_id, targets))
    /\ ReadTablesUnchanged

SubmitEndPending ==
    /\ out = Idle
    /\ \E place \in UrlPlaces, username \in Users :
          out' = ReadReply("submit_end_pending",
                           submit_end_pending(events, place[1], place[2], username))
    /\ ReadTablesUnchanged

UploadRacesCsv ==
    /\ out = Idle
    /\ \E file \in FilesOf(RaceLines) :
          out' = ReadReply("upload_races_csv", upload_races_csv(races, file))
    /\ ReadTablesUnchanged

UploadRacePartsCsv ==
    /\ out = Idle
    /\ \E race_id \in {"R1", "R3"}, file \in FilesOf(PartLines) :
          out' = ReadReply("upload_race_parts_csv",
                           upload_race_parts_csv(race_parts, race_id, file))
    /\ ReadTablesUnchanged

\* (a variant that stores the added rows of its preview)
MutUploadParticipantsCsvApplies ==
    /\ out = Idle
    /\ \E race_id \in {"R1", "R3"}, file \in FilesOf(ParticipantLines) :
        LET answer == upload_participants_csv(participants, race_id, file)
        IN /\ out' = ReadReply("upload_participants_csv", answer)
           /\ participants' =
                 IF answer = None \/ "added" \notin DOMAIN Val(answer) THEN participants
                 ELSE participants \cup
                      {Participant(race_id, Val(Val(answer).added[k]["participant_id"]),
                                   <<"A">>, <<"N">>, Val(answer).added[k]["group"], <<"W">>) :
                          k \in 1..Len(Val(answer).added)}
    /\ UNCHANGED <<races, race_parts, events, next_id, resp, reqs, claimed, race_part_start_times>>
UploadParticipantsCsv ==
    /\ out = Idle
    /\ \E race_id \in {"R1", "R3"}, file \in FilesOf(ParticipantLines) :
          out' = ReadReply("upload_participants_csv",
                           upload_participants_csv(participants, race_id, file))
    /\ ReadTablesUnchanged

UploadTimingEventsCsv ==
    /\ out = Idle
    /\ \E place \in UrlPlaces, file \in FilesOf(CsvLines) :
          out' = ReadReply("upload_timing_events_csv",
                           IF StageFound(place[1], place[2])
                           THEN Some(upload_timing_events_csv(events, place[1],
                                                              place[2], file))
                           ELSE None)
    /\ ReadTablesUnchanged

NextRead ==
    \/ ReadResults
    \/ ReadWave
    \/ SubmitEndPending
    \/ UploadRacesCsv
    \/ UploadRacePartsCsv
    \/ UploadParticipantsCsv
    \/ UploadTimingEventsCsv

\* one read arrives at a store that earlier requests have filled
InitRead ==
    /\ races = ReadRaces
    /\ race_parts = ReadParts
    /\ participants = ReadParticipants
    /\ events \in EventTables(SubmitPool, MaxApplyEvents)
    /\ next_id = Len(events) + 1
    /\ resp = Idle
    /\ reqs = NoRequests
    /\ out = Idle
    /\ claimed = NoClaims
    /\ race_part_start_times = {}

SpecRead == InitRead /\ [][NextRead]_vars

\* C24: a read request (results, wave schedule, pending-event listing, any
\* CSV preview) leaves every stored race, stage, participant and timing event
\* exactly as it was
C24_ReadsLeaveStore ==
    [][out' # out => UNCHANGED <<races, race_parts, participants, events, next_id>>]_vars

\* a participants preview with an added row was answered, and the bib of that
\* row is not stored
C24_Witness ==
    /\ out.op = "upload_participants_csv"
    /\ out.answer # None
    /\ "added" \in DOMAIN Val(out.answer)
    /\ Len(Val(out.answer).added) = 1
    /\ ~BibStored(participants, "R1", Val(Val(out.answer).added[1]["participant_id"]))
    /\ participants = ReadParticipants

\* --------------------------------------------------------------------------
\* Export of a table and preview of the exported file (SpecRoundTrip)
\* --------------------------------------------------------------------------
\* events of stage S1: a duration for bib 0, a duration of 0 for bib 1, an
\* end time without target, a start time for group A
RoundPool ==
    {TimingEvent(0, "R1", "S1", Some(0), None, 1, 1, Some(5), None, None, None),
     TimingEvent(0, "R1", "S1", Some(1), None, 1, 1, Some(0), None, None, None),
     TimingEvent(0, "R1", "S1", None, None, 2, 3, None, None, Some(2), Some("u1")),
     TimingEvent(0, "R1", "S1", None, Some(GroupA), 2, 2, None, Some(2), None, None)}

\* what the preview of an exported file answers: the kind of table, the
\* number of exported rows and the preview
RoundReply(kind, rows, answer) ==
    [op |-> "round_trip", kind |-> kind, rows |-> rows, answer |-> answer]

RoundTripRaces ==
    /\ out = Idle
    /\ out' = RoundReply("races", Cardinality(races),
                         Some(upload_races_csv(races, download_races_csv(races))))
    /\ ReadTablesUnchanged

RoundTripRaceParts ==
    /\ out = Idle
    /\ \E race_id \in races :
          out' = RoundReply("race_parts",
                            Len(download_race_parts_csv(race_parts, race_id)),
                            upload_race_parts_csv(race_parts, race_id,
                                download_race_parts_csv(race_parts, race_id)))
    /\ ReadTablesUnchanged

RoundTripParticipants ==
    /\ out = Idle
    /\ \E race_id \in races :
          out' = RoundReply("participants",
                            Len(download_participants_csv(participants, race_id)),
                            upload_participants_csv(participants, race_id,
                                download_participants_csv(participants, race_id)))
    /\ ReadTablesUnchanged

RoundTripTimingEvents ==
    /\ out = Idle
    /\ \E place \in {<<"R1", "S1">>, <<"R2", "S1">>} :
          out' = RoundReply("timing_events",
                            Len(download_timing_events_csv(events, place[1], place[2])),
                            Some(upload_timing_events_csv(events, place[1], place[2],
                                download_timing_events_csv(events, place[1], place[2]))))
    /\ ReadTablesUnchanged

NextRoundTrip ==
    \/ RoundTripRaces
    \/ RoundTripRaceParts
    \/ RoundTripParticipants
    \/ RoundTripTimingEvents

\* the store: the participants with or without a bib 0, any events of the pool
InitRoundTrip ==
    /\ races = ReadRaces
    /\ race_parts = ReadParts
    /\ participants \in {ReadParticipants,
                         ReadParticipants \cup
                             {Participant("R1", 0, <<"K">>, <<"O">>, GroupB, <<"W">>)}}
    /\ events \in EventTables(RoundPool, MaxRoundEvents)
    /\ next_id = Len(events) + 1
    /\ resp = Idle
    /\ reqs = NoRequests
    /\ out = Idle
    /\ claimed = NoClaims
    /\ race_part_start_times = {}

SpecRoundTrip == InitRoundTrip /\ [][NextRoundTrip]_vars

\* C26: for every kind of table, the preview of the exported file against
\* the unchanged store puts every exported row in ignored, none in added and
\* none in modified; also for bib 0, duration 0 and events without target
C26_ExportPreviewsIgnored ==
    out.op = "round_trip" =>
        /\ out.answer # None
        /\ "added" \in DOMAIN Val(out.answer)
        /\ Val(out.answer).added = <<>>
        /\ Val(out.answer).modified = <<>>
        /\ Len(Val(out.answer).ignored) = out.rows

\* --------------------------------------------------------------------------
\* Requests that name rows which may not exist (SpecLookup)
\* --------------------------------------------------------------------------
\* GET /race/{race_id}/part/{race_part_id}: None for HTTP 404, else the rows
\* of build_results; the Overall stage is a stage of its race here
race_part_results(race_id, race_part_id, group_filters, sex_filters) ==
    IF \/ race_id \notin races
       \/ ~\E part \in race_parts :
              part.race_id = race_id /\ part.race_part_id = race_part_id
    THEN None
    ELSE LET part == CHOOSE q \in race_parts :
                         q.race_id = race_id /\ q.race_part_id = race_part_id
         IN Some(build_results(events, race_parts, participants, race_id, part,
                               group_filters, sex_filters))

\* race and stage of the URL: stored ones, a race and a stage that are not
\* stored
LookupPlaces == {<<"R1", "S1">>, <<"R1", "Overall">>, <<"R9", "S1">>, <<"R1", "S9">>}

\* the targets field: a stored bib, a bib no participant has, a stored bib
\* with one that is not
LookupTargetTexts == {<<"1">>, <<"9">>, <<"1", ",", "9">>}

LookupResults ==
    /\ reqs = NoRequests
    /\ \E place \in LookupPlaces :
        /\ out' = ReadReply("race_part_results",
                            race_part_results(place[1], place[2], {}, {}))
        /\ reqs' = Request("race_part_results", place, None, <<>>, 0, <<>>)
        /\ UNCHANGED <<races, race_parts, participants, events, next_id, resp, claimed, race_part_start_times>>

LookupSubmitDuration ==
    /\ reqs = NoRequests
    /\ \E place \in LookupPlaces, targets \in LookupTargetTexts :
      \E now \in Nows : \E stamps \in ClockReads(now) :
        /\ submit_duration(place[1], place[2], targets,
                           <<"0", "0", ":", "0", "5">>, now, stamps)
        /\ reqs' = Request("submit_duration", place, None, targets, now, stamps)
        /\ UNCHANGED <<races, race_parts, participants, out, claimed, race_part_start_times>>

LookupSubmitStart ==
    /\ reqs = NoRequests
    /\ \E place \in LookupPlaces, targets \in LookupTargetTexts :
      \E now \in Nows : \E stamps \in ClockReads(now) :
        /\ submit_start(place[1], place[2], targets, NOW, now, stamps)
        /\ reqs' = Request("submit_start", place, None, targets, now, stamps)
        /\ UNCHANGED <<races, race_parts, participants, out, claimed, race_part_start_times>>

LookupSubmitEnd ==
    /\ reqs = NoRequests
    /\ \E place \in LookupPlaces, targets \in LookupTargetTexts, username \in Users :
      \E now \in Nows : \E stamps \in ClockReads(now) :
        /\ submit_end(place[1], place[2], username, targets, NOW, now, stamps)
        /\ reqs' = Request("submit_end", place, Some(username), targets, now, stamps)
        /\ UNCHANGED <<races, race_parts, participants, out, claimed, race_part_start_times>>

LookupClaim ==
    /\ reqs = NoRequests
    /\ \E place \in LookupPlaces, event_id \in 1..2, username \in Users, targets \in LookupTargetTexts :
        /\ submit_end_targets(place[1], place[2], event_id, username, targets)
        /\ reqs' = Request("submit_end_targets", place, Some(username), targets,
                            0, <<>>) @@ [event_id |-> event_id]
        /\ UNCHANGED <<races, race_parts, participants, out>>

NextLookup ==
    \/ LookupResults
    \/ LookupSubmitDuration
    \/ LookupSubmitStart
    \/ LookupSubmitEnd
    \/ LookupClaim

SpecLookup == InitSubmit /\ [][NextLookup]_vars

\* the request names a race that is not stored or a stage its race has not
NamesUnknownPlace(r) ==
    \/ r.race_id \notin races
    \/ ~\E part \in race_parts :
           part.race_id = r.race_id /\ part.race_part_id = r.race_part_id

\* the request names a bib that no participant of the race has
NamesUnknownParticipant(r) ==
    \E k \in 1..Len(r.tokens) :
        /\ IsDigit(r.tokens[k])
        /\ ~BibStored(participants, r.race_id, DigitsToInt(r.tokens[k]))

\* C25: a results query, a submission or a claim that names a race, stage,
\* event or participant that is not stored is answered with a lookup failure
\* and stores nothing; a results query for an unknown place returns no rows
C25_UnknownIsLookupFailure ==
    [][reqs' # reqs =>
        /\ (reqs'.op = "race_part_results" /\ NamesUnknownPlace(reqs')) =>
              out'.answer = None
        /\ (reqs'.op # "race_part_results" /\ NamesUnknownPlace(reqs')) =>
              resp'.status = 404 /\ events' = events
        /\ (reqs'.op = "submit_end_targets"
            /\ EventIndex(events, reqs'.event_id) = 0) =>
              resp'.status = 404 /\ events' = events
        /\ (reqs'.op # "race_part_results" /\ NamesUnknownParticipant(reqs')) =>
              resp'.status \notin {200, 303} /\ events' = events
    ]_vars


\* --------------------------------------------------------------------------
\* Start times of the backend service (src/backend/app/services.py)
\* --------------------------------------------------------------------------
DefaultGroupName == <<"D", "E", "F", "A", "U", "L", "T">>

\* get_race_part: the stage row of (race_id, race_part_id), or None
get_race_part(parts, race_id, race_part_id) ==
    LET found == {p \in parts : p.race_id = race_id /\ p.race_part_id = race_part_id}
    IN IF found = {} THEN None ELSE Some(CHOOSE p \in found : TRUE)

\* now.strftime("%H:%M:%S") of a clock that stands at second n of hour 0
Strftime(n) == <<"0", ":", "0", ":">> \o IntText(n)

\* the rows "where race_id, race_part_id, group_name" of race_part_start_times
StartTimeRows(rows, race_id, race_part_id, group) ==
    {r \in rows : /\ r.race_id = race_id
                  /\ r.race_part_id = race_part_id
                  /\ r.group_name = group}

\* the mutated upsert leaves a row it finds as it is
MutUpsertKeepsExisting(rows, parts, payload, now) ==
    LET part == get_race_part(parts, payload.race_id, payload.race_part_id)
        named == IF payload.group_name # <<>> THEN payload.group_name
                 ELSE DefaultGroupName
        group == IF Strip(named) # <<>> THEN Strip(named) ELSE DefaultGroupName
        stripped == Strip(payload.start_time_hms)
        upper == [i \in 1..Len(stripped) |-> Upper(stripped[i])]
        start_time_hms == IF upper = <<"N", "O", "W">> THEN Strftime(now)
                          ELSE payload.start_time_hms
        existing == StartTimeRows(rows, payload.race_id, payload.race_part_id, group)
    IN IF part = None THEN [status |-> 500, rows |-> rows]
       ELSE IF Val(part).time_event_type # "end_time"
       THEN [status |-> 500, rows |-> rows]
       ELSE IF existing # {} THEN [status |-> 302, rows |-> rows]
       ELSE [status |-> 302,
             rows |-> rows \cup {[race_id |-> payload.race_id,
                                  race_part_id |-> payload.race_part_id,
                                  group_name |-> group,
                                  start_time_hms |-> start_time_hms,
                                  race_part_fk |-> Val(part).id]}]

\* upsert_start_time: the two ValueErrors leave the table alone (status 500
\* of the unhandled exception); otherwise the row of the group is updated or
\* inserted and the handler redirects (302)
upsert_start_time(rows, parts, payload, now) ==
    LET part == get_race_part(parts, payload.race_id, payload.race_part_id)
        named == IF payload.group_name # <<>> THEN payload.group_name
                 ELSE DefaultGroupName
        group == IF Strip(named) # <<>> THEN Strip(named) ELSE DefaultGroupName
        stripped == Strip(payload.start_time_hms)
        upper == [i \in 1..Len(stripped) |-> Upper(stripped[i])]
        start_time_hms == IF upper = <<"N", "O", "W">> THEN Strftime(now)
                          ELSE payload.start_time_hms
        existing == StartTimeRows(rows, payload.race_id, payload.race_part_id, group)
    IN IF part = None THEN [status |-> 500, rows |-> rows]
       ELSE IF Val(part).time_event_type # "end_time"
       THEN [status |-> 500, rows |-> rows]
       ELSE IF existing # {}
       THEN [status |-> 302,
             rows |-> (rows \ existing) \cup
                      {[r EXCEPT !.start_time_hms = start_time_hms] : r \in existing}]
       ELSE [status |-> 302,
             rows |-> rows \cup {[race_id |-> payload.race_id,
                                  race_part_id |-> payload.race_part_id,
                                  group_name |-> group,
                                  start_time_hms |-> start_time_hms,
                                  race_part_fk |-> Val(part).id]}]

\* _get_start_time_for_group: the row of the stripped group, else the row of
\* DEFAULT; Some(<<hh, mm, ss>>) of its text, None without a row or when the
\* text is not three integers a time of day accepts
_get_start_time_for_group(rows, race_id, race_part_id, group_name) ==
    LET group == Strip(group_name)
        own == StartTimeRows(rows, race_id, race_part_id, group)
        fallback == StartTimeRows(rows, race_id, race_part_id, DefaultGroupName)
        found == IF own # {} THEN own ELSE fallback
    IN IF found = {} THEN None
       ELSE LET row == CHOOSE r \in found : TRUE
                fields == Split(row.start_time_hms, ":")
                ints == [i \in 1..Len(fields) |-> ToInt(fields[i])]
            IN IF Len(ints) # 3 \/ \E i \in 1..Len(ints) : ints[i] = None THEN None
               ELSE IF Val(ints[1]) \in 0..23 /\ Val(ints[2]) \in 0..59
                       /\ Val(ints[3]) \in 0..59
               THEN Some(<<Val(ints[1]), Val(ints[2]), Val(ints[3])>>)
               ELSE None

\* the stages of the backend store: an end-time stage and a duration stage
\* of R1, an end-time stage of R2
BackendParts ==
    {[id |-> 1, race_id |-> "R1", race_part_id |-> "S1", time_event_type |-> "end_time"],
     [id |-> 2, race_id |-> "R1", race_part_id |-> "S2", time_event_type |-> "duration"],
     [id |-> 3, race_id |-> "R2", race_part_id |-> "S1", time_event_type |-> "end_time"]}

UpsertGroupTexts == {<<>>, <<" ", "A">>, DefaultGroupName}
UpsertTimeTexts == {<<"0", ":", "0", ":", "1">>, <<" ", "n", "o", "w">>}
\* the seconds the server clock shows when NOW is read
UpsertNows == {2}

\* one call of upsert_start_time; out keeps the calls made and their outcome
UpsertStartTime ==
    /\ Len(out) < MaxUpserts
    /\ \E race_id \in {"R1", "R2"}, race_part_id \in {"S1", "S2"},
          group_name \in UpsertGroupTexts, start_time_hms \in UpsertTimeTexts,
          now \in UpsertNows :
          LET payload == [race_id |-> race_id, race_part_id |-> race_part_id,
                          group_name |-> group_name,
                          start_time_hms |-> start_time_hms]
              done == upsert_start_time(race_part_start_times, race_parts,
                                        payload, now)
          IN /\ race_part_start_times' = done.rows
             /\ out' = Append(out, [payload |-> payload, now |-> now,
                                    status |-> done.status,
                                    before |-> race_part_start_times])
    /\ UNCHANGED <<races, race_parts, participants, events, next_id, resp, reqs,
                   claimed>>

InitStartTimes ==
    /\ races = {"R1", "R2"}
    /\ race_parts = BackendParts
    /\ participants = {}
    /\ events = <<>>
    /\ next_id = 1
    /\ resp = Idle
    /\ reqs = NoRequests
    /\ out = <<>>
    /\ claimed = NoClaims
    /\ race_part_start_times = {}

SpecStartTimes == InitStartTimes /\ [][UpsertStartTime]_vars

\* the group a call names: its name without surrounding blanks, DEFAULT when
\* nothing is left
NamedGroup(payload) ==
    IF Strip(payload.group_name) = <<>> THEN DefaultGroupName
    ELSE Strip(payload.group_name)

\* the start time a call asks for: the clock's reading for NOW
AskedTime(call) ==
    LET stripped == Strip(call.payload.start_time_hms)
    IN IF [i \in 1..Len(stripped) |-> Upper(stripped[i])] = <<"N", "O", "W">>
       THEN Strftime(call.now) ELSE call.payload.start_time_hms

IsEndTimeStage(race_id, race_part_id) ==
    \E p \in race_parts : /\ p.race_id = race_id /\ p.race_part_id = race_part_id
                          /\ p.time_event_type = "end_time"

\* the calls of the log on an end-time stage for (race, stage, group)
CallsFor(race_id, race_part_id, group) ==
    {i \in 1..Len(out) : /\ out[i].payload.race_id = race_id
                         /\ out[i].payload.race_part_id = race_part_id
                         /\ IsEndTimeStage(race_id, race_part_id)
                         /\ NamedGroup(out[i].payload) = group}

\* C27: after any sequence of upsert_start_time calls there is at most one
\* row per (race, stage, group); the row of a group holds the start time of
\* the latest call for it and the lookup of the group reads that time; a call
\* with an empty group name is kept under DEFAULT; a call on a stage that is
\* not an end-time stage is rejected and stores nothing.
C27_OneStartTimePerGroup ==
    /\ \A r1, r2 \in race_part_start_times :
          (r1.race_id = r2.race_id /\ r1.race_part_id = r2.race_part_id
           /\ r1.group_name = r2.group_name) => r1 = r2
    /\ \A r \in race_part_start_times :
          LET calls == CallsFor(r.race_id, r.race_part_id, r.group_name)
          IN /\ calls # {}
             /\ LET last == CHOOSE i \in calls : \A j \in calls : j <= i
                IN r.start_time_hms = AskedTime(out[last])
    /\ \A i \in 1..Len(out) :
          LET payload == out[i].payload
          IN IF IsEndTimeStage(payload.race_id, payload.race_part_id)
             THEN /\ out[i].status = 302
                  /\ StartTimeRows(race_part_start_times, payload.race_id,
                                   payload.race_part_id, NamedGroup(payload)) # {}
                  /\ \A r \in race_part_start_times : r.group_name # <<>>
                  /\ LET calls == CallsFor(payload.race_id, payload.race_part_id,
                                           NamedGroup(payload))
                         last == CHOOSE k \in calls : \A j \in calls : j <= k
                         fields == Split(Strip(AskedTime(out[last])), ":")
                     IN _get_start_time_for_group(race_part_start_times,
                            payload.race_id, payload.race_part_id,
                            payload.group_name)
                        = Some([k \in 1..3 |-> Val(ToInt(fields[k]))])
             ELSE /\ out[i].status # 302
                  /\ (i < Len(out) => out[i + 1].before = out[i].before)
                  /\ (i = Len(out) => race_part_start_times = out[i].before)

\* three calls were made: one stored a start time under an empty group name,
\* a later one replaced it through NOW, one on a duration stage was rejected
C27_Witness ==
    /\ Len(out) = 3
    /\ \E i, j, k \in 1..3 :
          /\ i < j
          /\ out[i].payload.group_name = <<>> /\ out[i].status = 302
          /\ out[j].payload.group_name = DefaultGroupName /\ out[j].status = 302
          /\ out[i].payload.race_id = out[j].payload.race_id
          /\ out[i].payload.race_part_id = out[j].payload.race_part_id
          /\ out[i].payload.start_time_hms # out[j].payload.start_time_hms
          /\ out[k].payload.race_part_id = "S2" /\ out[k].status = 500
    /\ race_part_start_times # {}


\* --------------------------------------------------------------------------
\* Pending end events and the results (SpecPending)
\* --------------------------------------------------------------------------
\* events stored before: starts for bib 1 and for group B in S1, a duration
\* for bib 1 in S2, a pending end in S1
PendingPool ==
    {TimingEvent(0, "R1", "S1", Some(1), None, 1, 1, None, Some(1), None, None),
     TimingEvent(0, "R1", "S1", None, Some(GroupB), 1, 1, None, Some(2), None, None),
     TimingEvent(0, "R1", "S2", Some(1), None, 1, 1, Some(5), None, None, None),
     TimingEvent(0, "R1", "S1", None, None, 2, 2, None, None, Some(2), Some("u2"))}

\* POST .../submit-end with and without targets on a filled store
SubmitEndOnStore ==
    /\ reqs = NoRequests
    /\ \E place \in {<<"R1", "S1">>, <<"R1", "S2">>}, username \in Users,
          targets \in {<<>>, <<"1">>, <<",">>}, time_value \in TimeTexts :
      \E now \in Nows : \E stamps \in ClockReads(now) :
        /\ submit_end(place[1], place[2], username, targets, time_value, now, stamps)
        /\ reqs' = Request("submit_end", place, Some(username), targets, now, stamps)
        /\ UNCHANGED <<races, race_parts, participants, out, claimed,
                       race_part_start_times>>

InitPending ==
    /\ races = ReadRaces
    /\ race_parts = ReadParts
    /\ participants = ReadParticipants
    /\ events \in EventTables(PendingPool, MaxPendingEvents)
    /\ next_id = Len(events) + 1
    /\ resp = Idle
    /\ reqs = NoRequests
    /\ out = Idle
    /\ claimed = NoClaims
    /\ race_part_start_times = {}

SpecPending == InitPending /\ [][SubmitEndOnStore]_vars

IsTargetless(e) == e.participant_id = None /\ e.group = None
HasTarget(e) == ~IsTargetless(e)

\* the result rows of every stage of every race, Overall included
AllResults(evs) ==
    [part \in race_parts |->
        build_results(evs, race_parts, participants, part.race_id, part, {}, {})]

\* the resolved duration of every participant in every stage of their race
AllDurations(evs) ==
    [q \in {<<x, part>> \in participants \X race_parts :
                x.race_id = part.race_id /\ ~part.is_overall} |->
        compute_participant_duration(evs, q[1].race_id, q[2].race_part_id, q[1])]

\* the request on record stored one event without bib and without group
PendingCreated ==
    /\ reqs # NoRequests /\ reqs.op = "submit_end" /\ resp.status = 200
    /\ reqs.tokens = <<>>
    /\ Len(events) > 0 /\ IsTargetless(events[Len(events)])

\* C28: an event without bib and without group contributes to nobody's
\* resolved duration: the durations and the result rows of every stage and
\* of Overall are those of the store without such events, and a request that
\* creates a pending end event leaves all of them as they were.
C28_PendingNeverCounts ==
    [][/\ AllDurations(events') = AllDurations(SelectSeq(events', HasTarget))
       /\ AllResults(events') = AllResults(SelectSeq(events', HasTarget))
       /\ (PendingCreated' /\ Len(events') = Len(events) + 1) =>
              /\ AllDurations(events') = AllDurations(events)
              /\ AllResults(events') = AllResults(events)]_vars

\* a pending end event was created in a stage where bib 1 has started before
\* that end time and has no result
C28_Witness ==
    /\ PendingCreated
    /\ LET pending == events[Len(events)]
       IN /\ \E i \in 1..(Len(events) - 1) :
                /\ events[i].participant_id = Some(1)
                /\ events[i].race_part_id = pending.race_part_id
                /\ events[i].start_time # None
                /\ Val(events[i].start_time) <= Val(pending.end_time)
          /\ \E x \in participants :
                /\ x.race_id = "R1" /\ x.participant_id = 1
                /\ compute_participant_duration(events, "R1", pending.race_part_id, x)
                   = None


\* --------------------------------------------------------------------------
\* One more timing event and the results (SpecAdd)
\* --------------------------------------------------------------------------
\* events stored before: for bib 1 a start and an end in S1 and a duration
\* in S2, for group A a duration in S1
AddPool ==
    {TimingEvent(0, "R1", "S1", Some(1), None, 1, 1, None, Some(1), None, None),
     TimingEvent(0, "R1", "S1", Some(1), None, 8, 8, None, None, Some(8), Some("u1")),
     TimingEvent(0, "R1", "S2", Some(1), None, 1, 1, Some(5), None, None, None),
     TimingEvent(0, "R1", "S1", None, Some(GroupA), 1, 1, Some(4), None, None, None)}

AddPlaces == {<<"R1", "S1">>, <<"R1", "S2">>}
AddTargetTexts == {<<"1">>, <<"A">>, <<"2", ",", "1">>}
AddTimeTexts == {NOW, <<"0", "0", ":", "0", "0", ":", "0", "1">>,
                 <<"0", "0", ":", "0", "0", ":", "0", "9">>}
AddDurationTexts == {<<"0", "0", ":", "0", "1">>, <<"0", "0", ":", "0", "9">>}

\* what a request that adds events leaves alone; out keeps the store it found
AddFrame ==
    /\ out' = [op |-> "add", before |-> events]
    /\ UNCHANGED <<races, race_parts, participants, reqs, claimed,
                   race_part_start_times>>

AddSubmitStart ==
    /\ out = Idle
    /\ \E place \in AddPlaces, targets \in AddTargetTexts, time_value \in AddTimeTexts :
      \E now \in Nows :
        /\ submit_start(place[1], place[2], targets, time_value, now, StampsAt(now))
        /\ AddFrame

AddSubmitDuration ==
    /\ out = Idle
    /\ \E place \in AddPlaces, targets \in AddTargetTexts, duration \in AddDurationTexts :
      \E now \in Nows :
        /\ submit_duration(place[1], place[2], targets, duration, now, StampsAt(now))
        /\ AddFrame

AddSubmitEnd ==
    /\ out = Idle
    /\ \E place \in AddPlaces, username \in Users, targets \in AddTargetTexts \cup {<<>>},
          time_value \in AddTimeTexts :
      \E now \in Nows :
        /\ submit_end(place[1], place[2], username, targets, time_value, now, StampsAt(now))
        /\ AddFrame

AddManual ==
    /\ out = Idle
    /\ \E place \in AddPlaces, participant_id \in {None, Some(1)},
          group \in {None, Some(GroupA)}, f \in FormPayloads :
      \E now \in Nows :
        /\ create_timing_event_manual(place[1], place[2], participant_id, group,
                                      f[1], f[2], f[3], now, now)
        /\ AddFrame

NextAdd == AddSubmitStart \/ AddSubmitDuration \/ AddSubmitEnd \/ AddManual

InitAdd ==
    /\ races = ReadRaces
    /\ race_parts = ReadParts
    /\ participants = ReadParticipants
    /\ events \in EventTables(AddPool, MaxAddEvents)
    /\ next_id = Len(events) + 1
    /\ resp = Idle
    /\ reqs = NoRequests
    /\ out = Idle
    /\ claimed = NoClaims
    /\ race_part_start_times = {}

SpecAdd == InitAdd /\ [][NextAdd]_vars

\* the request on record added events and changed no stored one
Added ==
    /\ out # Idle
    /\ Len(events) > Len(out.before)
    /\ SubSeq(events, 1, Len(out.before)) = out.before

\* a result that is not larger than, and not lost against, the one before
NotWorse(before, after) ==
    before # None => after # None /\ Val(after) <= Val(before)

\* C29: adding timing events to a stage never increases a participant's
\* resolved duration for a stage and never turns a number into DNF, and
\* the same holds for every row of every result table, Overall included.
C29_AddingNeverWorsens ==
    Added =>
        /\ \A q \in DOMAIN AllDurations(events) :
              NotWorse(AllDurations(out.before)[q], AllDurations(events)[q])
        /\ \A part \in race_parts :
              LET before == AllResults(out.before)[part]
                  after == AllResults(events)[part]
              IN \A i \in 1..Len(before) : \E j \in 1..Len(after) :
                    /\ after[j].bib = before[i].bib
                    /\ NotWorse(before[i].duration_seconds, after[j].duration_seconds)

\* a later start for bib 1 was added to S1 where bib 1 had a time: the stage
\* result and the Overall result of bib 1 both became smaller
C29_Witness ==
    /\ Added
    /\ \E x \in participants :
          /\ x.race_id = "R1" /\ x.participant_id = 1
          /\ compute_participant_duration(out.before, "R1", "S1", x) # None
          /\ compute_participant_duration(events, "R1", "S1", x) # None
          /\ Val(compute_participant_duration(events, "R1", "S1", x))
             < Val(compute_participant_duration(out.before, "R1", "S1", x))
          /\ LET parts == SortedByRaceOrder({p \in race_parts : p.race_id = "R1"})
             IN /\ compute_overall_duration(out.before, "R1", x, parts) # None
                /\ compute_overall_duration(events, "R1", x, parts) # None
                /\ Val(compute_overall_duration(events, "R1", x, parts))
                   < Val(compute_overall_duration(out.before, "R1", x, parts))
    /\ events[Len(events)].start_time # None


\* --------------------------------------------------------------------------
\* Edits and deletes by primary key under the race of the URL (SpecEdit)
\* --------------------------------------------------------------------------
\* POST .../manage/timing-events/{event_id}/delete: 404 unless the stage of
\* the URL exists and is not Overall; the event db.get finds is deleted
delete_timing_event(race_id, race_part_id, event_id) ==
    IF ~\E part \in race_parts : /\ part.race_id = race_id
                                 /\ part.race_part_id = race_part_id
                                 /\ ~part.is_overall
    THEN /\ resp' = Reply("delete_timing_event", 404)
         /\ UNCHANGED <<events, next_id>>
    ELSE /\ events' = SelectSeq(events, LAMBDA e : e.id # event_id)
         /\ next_id' = next_id
         /\ resp' = Reply("delete_timing_event", 303)

\* the request on record: the race of its URL and the tables it found
EditFrame(race_id) ==
    out' = [op |-> "edit", race_id |-> race_id, race_parts |-> race_parts,
            participants |-> participants, events |-> events]

EditDeleteRacePart ==
    /\ out = Idle
    /\ \E race_id \in races, part \in PartsById :
          /\ delete_race_part(race_id, part)
          /\ EditFrame(race_id)
    /\ UNCHANGED <<participants, events, next_id, reqs, claimed,
                   race_part_start_times>>

EditUpdateRacePart ==
    /\ out = Idle
    /\ \E race_id \in races, part \in PartsById, race_part_id \in {"S1", "S3"},
          race_order \in {1, 3} :
          /\ update_race_part(race_id, part, race_part_id, race_order)
          /\ EditFrame(race_id)
    /\ UNCHANGED <<participants, events, next_id, reqs, claimed,
                   race_part_start_times>>

EditUpdateParticipant ==
    /\ out = Idle
    /\ \E race_id \in races, participant \in ParticipantsByPk,
          participant_id \in {1, 3}, group \in {<<"O">>, GroupA} :
          /\ update_participant(race_id, participant, participant_id, <<"A">>,
                                <<"N">>, group, <<"W">>)
          /\ EditFrame(race_id)
    /\ UNCHANGED <<races, race_parts, events, next_id, reqs, claimed,
                   race_part_start_times>>

EditDeleteParticipant ==
    /\ out = Idle
    /\ \E race_id \in races, participant \in ParticipantsByPk :
          /\ delete_participant(race_id, participant)
          /\ EditFrame(race_id)
    /\ UNCHANGED <<races, race_parts, events, next_id, reqs, claimed,
                   race_part_start_times>>

EditUpdateTimingEvent ==
    /\ out = Idle
    /\ \E place \in {<<"R1", "S1">>, <<"R2", "S1">>, <<"R1", "Overall">>},
          event_id \in 1..next_id, participant_id \in {None, Some(2)},
          group \in {None, Some(GroupA)}, f \in FormPayloads :
      \E now \in Nows :
          /\ update_timing_event(place[1], place[2], event_id, participant_id,
                                 group, f[1], f[2], f[3], now)
          /\ EditFrame(place[1])
    /\ UNCHANGED <<races, race_parts, participants, reqs, claimed,
                   race_part_start_times>>

EditDeleteTimingEvent ==
    /\ out = Idle
    /\ \E place \in {<<"R1", "S1">>, <<"R2", "S1">>, <<"R1", "Overall">>},
          event_id \in 1..next_id :
          /\ delete_timing_event(place[1], place[2], event_id)
          /\ EditFrame(place[1])
    /\ UNCHANGED <<races, race_parts, participants, reqs, claimed,
                   race_part_start_times>>

NextEdit ==
    \/ EditDeleteRacePart
    \/ EditUpdateRacePart
    \/ EditUpdateParticipant
    \/ EditDeleteParticipant
    \/ EditUpdateTimingEvent
    \/ EditDeleteTimingEvent

\* two races with their stages and participants and one event each
InitEdit ==
    /\ races = ReadRaces
    /\ race_parts = ReadParts
    /\ participants = ReadParticipants
    /\ events = <<TimingEvent(1, "R1", "S1", Some(1), None, 1, 1, Some(5), None, None, None),
                  TimingEvent(2, "R2", "S1", Some(1), None, 1, 1, Some(7), None, None, None)>>
    /\ next_id = 3
    /\ resp = Idle
    /\ reqs = NoRequests
    /\ out = Idle
    /\ claimed = NoClaims
    /\ race_part_start_times = {}

SpecEdit == InitEdit /\ [][NextEdit]_vars

\* the stored events of one race
EventsOfRace(evs, race_id) == {evs[i] : i \in {k \in 1..Len(evs) : evs[k].race_id = race_id}}

\* C30: an edit or delete of a stage, participant or timing event issued
\* under race R changes only rows of race R: the stages, participants and
\* timing events of every other race are the ones stored before.
C30_EditsStayInRace ==
    out # Idle =>
        \A r \in ReadRaces \ {out.race_id} :
            /\ {p \in race_parts : p.race_id = r}
               = {p \in out.race_parts : p.race_id = r}
            /\ {p \in participants : p.race_id = r}
               = {p \in out.participants : p.race_id = r}
            /\ EventsOfRace(events, r) = EventsOfRace(out.events, r)

============================================================================
